---------------------------- MODULE Spec2Model ----------------------------
(***************************************************************************)
(* lottr: resumable, concurrent batch translator.                          *)
(*                                                                         *)
(* Two views of the program share this module.                            *)
(*   Spec     the job across runs: start (lib.rs) loads the sidecars,      *)
(*            extracts or reloads the Textures, builds the batch queue,    *)
(*            results are recorded by update, the final checkpoint is      *)
(*            written and the rewriter (output.rs) produces the output     *)
(*            file and the failed-range sidecar.                           *)
(*   SpecRun  one call of translate (translator.rs) at task level: the     *)
(*            workers, the translator task, the signal watcher and the     *)
(*            supervisor's select loop, with the two bounded channels.     *)
(* Line indices, byte offsets and batch ranges are 0-based as in the       *)
(* source; Line(tex, i) reads lines[i].                                    *)
(***************************************************************************)
EXTENDS Integers, Sequences, FiniteSets, TLC

VARIABLES
    \* ---- the job across runs (Spec)
    file,          \* the original file: sequence of raw lines
    sidecar,       \* <name>.textures.json: its JSON content, or NoFile
    diag,          \* <name>.dignostic_failed_range.json: list of ranges, or NoFile
    phase,         \* position in lib.rs start: "idle", "translating", "output", "exit", "failed"
    cfg,           \* configuration of the current run
    specify_range, \* cfg.specify_range of the current run (None or a list)
    textures,      \* textures_mut of the current run
    queue0,        \* batch queue as built by create_batch_queue (before any pop)
    queue,         \* shared batch queue (a stack, popped from the tail)
    inflight,      \* batches popped by a worker and not yet recorded
    rewritten,     \* the output file written by the rewriter, or NoFile
    failed,        \* dignostic_failed_range of the last rewrite
    runs,          \* number of runs started
    \* ---- one call of translate at task level (SpecRun)
    rcfg,          \* configuration: max_tokens, max_concurrent, pool, chatgpt_opt,
                   \* empty (the entries of api_pool with an empty api_key or api_url)
    snapshot,      \* the immutable Textures shared with the workers
    rq,            \* shared batch queue of this call
    wpc,           \* worker -> position in the worker loop
    wbatch,        \* worker -> batch_and_range (None or a batch)
    wresult,       \* worker -> result of the last request
    wclient,       \* worker -> credential index held by its client
    tpc,           \* position of the translator task
    wait_for_close,        \* translator's counter of running workers
    wclose,        \* worker->translator close channel (capacity 1)
    chan,          \* result channel tx/rx (capacity 1)
    close,         \* close channel close_tx/close_rx (capacity 1)
    sigpc,         \* position of the ctrl-c watcher task
    spc,           \* position of the supervisor (translate)
    wait_for_translations, \* supervisor's wait counter
    textures_mut,  \* the supervisor's mutable Textures
    saved,         \* the sidecar written by Textures::save in this call
    slast,         \* history: the supervisor's last operation
    sent,          \* history: results accepted by the result channel, in order
    received,      \* history: results the supervisor read from the channel
    elapsed,       \* the checkpoint timer's interval has passed since its last reset
    \* ---- one component driven on its own, as the unit tests drive it
    uraw,          \* the raw lines given to Input::parse
    utex,          \* the Textures the component works on
    upool,         \* api_pool of a TranslateChatGPT: sequence of credentials
    client_count,  \* TranslateChatGPT.client_count
    clients,       \* history: the clients create_client returned, in order
    ubatch,        \* the last call of batchize and its result, or None
    ubytes,        \* the bytes of the file a reader is opened on
    usaved,        \* the sidecar Textures::save wrote: its path and JSON, or NoFile
    uloaded,       \* what Textures::load returned, or None
    uqueue,        \* the last call of create_batch_queue and its result, or None
    uesc           \* one call of escape_json_string: s, line_width, escaped

pipeVars == <<file, sidecar, diag, phase, cfg, specify_range, textures, queue0,
              queue, inflight, rewritten, failed, runs>>
runVars  == <<rcfg, snapshot, rq, wpc, wbatch, wresult, wclient, tpc, wait_for_close, wclose,
              chan, close, sigpc, spc, wait_for_translations, textures_mut,
              saved, slast, sent, received, elapsed>>
unitVars == <<uraw, utex, upool, client_count, clients, ubatch, ubytes,
              usaved, uloaded, uqueue, uesc>>
vars     == <<pipeVars, runVars, unitVars>>

\* ------------------------------------------------------------------ bounds
MaxRaw      == 3   \* raw lines in the original file
MaxLineSize == 2   \* bytes in one raw line
MaxBudget   == 2   \* largest max_tokens of the configuration
MaxRuns     == 2   \* runs of the program on the same file
MaxWorkers  == 2   \* largest max_concurrent of the configuration
MaxPool     == 2   \* credentials in api_pool
RunLines    == 2   \* extracted lines in a task-level run
MaxUnitLines == 3  \* lines of the Textures a component is driven on
MaxClients  == 5   \* calls of create_client on one translator
MaxTok      == 2   \* tokens of one line given to the batcher
MaxBytes    == 5   \* bytes of the file a reader is opened on
MaxRegexen  == 2   \* entries of output_regexen in the configuration

\* --------------------------------------------------------------- constants
\* Option<T> and a file that may be absent are written <<>> or <<v>>
None    == <<>>
Some(v) == <<v>>
NoFile  == <<>>
NoChar  == ""
ChatGPT == "ChatGPT"
max_size == 4
by_line_count == FALSE

Min(a, b) == IF a < b THEN a ELSE b
Max(a, b) == IF a > b THEN a ELSE b

RECURSIVE Rep(_, _)
Rep(x, n) == IF n <= 0 THEN <<>> ELSE <<x>> \o Rep(x, n - 1)

\* ------------------------------------------------------------- data model
Line(tex, i) == tex.lines[i + 1]
NLines(tex)  == Len(tex.lines)

TextureLine(seek, size, content, skip) ==
    [seek |-> seek, size |-> size, content |-> content, skip |-> skip,
     translated |-> <<>>]

TranslatedLine(translator, content, start, end) ==
    [translator |-> translator, content |-> content, batch_range |-> <<start, end>>]

\* index (1-based) of the first translation by `translator` on a line, 0 if none
RECURSIVE FindFrom(_, _, _)
FindFrom(ts, translator, k) ==
    IF k > Len(ts) THEN 0
    ELSE IF ts[k].translator = translator THEN k
    ELSE FindFrom(ts, translator, k + 1)
Find(ts, translator) == FindFrom(ts, translator, 1)

update_on_end(tex, change) ==
    [tex EXCEPT !.curr_index = change.batch_range[2],
                !.lines[change.batch_range[2] + 1].translated =
                    IF Find(@, change.translator) # 0 THEN <<change>> ELSE Append(@, change)]

updateNoReplace(tex, change) ==
    [tex EXCEPT !.curr_index = change.batch_range[2],
                !.lines[change.batch_range[1] + 1].translated = Append(@, change)]

update(tex, change) ==
    LET s == change.batch_range[1]
        k == Find(Line(tex, s).translated, change.translator)
    IN  IF k # 0
        THEN [tex EXCEPT !.curr_index = change.batch_range[2],
                         !.lines[s + 1].translated[k].content = change.content,
                         !.lines[s + 1].translated[k].batch_range = change.batch_range]
        ELSE [tex EXCEPT !.curr_index = change.batch_range[2],
                         !.lines[s + 1].translated = Append(@, change)]

\* ------------------------------------------------------------ persistence
\* serde_json: a JSON value is a tagged tree; a struct is written as an object
\* of its fields in declaration order, a Vec and a tuple as an array, a unit
\* enum variant and a String as a string, usize as a number
JNum(n)  == <<"num", n>>
JStr(x)  == <<"str", x>>
JBool(b) == <<"bool", b>>
JArr(a)  == <<"arr", a>>
JObj(fs) == <<"obj", fs>>

\* the value of field `key` of an object
JGet(obj, key) ==
    LET fs == obj[2] IN fs[CHOOSE k \in 1..Len(fs) : fs[k][1] = key][2]

serialize_translated(t) ==
    JObj(<< <<"translator", JStr(t.translator)>>,
            <<"content", JStr(t.content)>>,
            <<"batch_range", JArr(<<JNum(t.batch_range[1]), JNum(t.batch_range[2])>>)>> >>)

serialize_line(l) ==
    JObj(<< <<"seek", JNum(l.seek)>>,
            <<"size", JNum(l.size)>>,
            <<"content", JStr(l.content)>>,
            <<"skip", JBool(l.skip)>>,
            <<"translated",
              JArr([k \in 1..Len(l.translated) |-> serialize_translated(l.translated[k])])>> >>)

save_untranslated(tex) ==
    JObj(<< <<"lines", JArr([k \in 1..Len(tex.lines) |->
                               serialize_line([tex.lines[k] EXCEPT !.translated = <<>>])])>>,
            <<"curr_index", JNum(tex.curr_index)>>,
            <<"name", JStr(tex.name)>> >>)

\* Textures::save: the content written to <name>.textures.json
save(tex) ==
    JObj(<< <<"lines", JArr([k \in 1..Len(tex.lines) |-> serialize_line(tex.lines[k])])>>,
            <<"curr_index", JNum(tex.curr_index)>>,
            <<"name", JStr(tex.name)>> >>)

deserialize_translated(j) ==
    [translator |-> JGet(j, "translator")[2],
     content |-> JGet(j, "content")[2],
     batch_range |-> << JGet(j, "batch_range")[2][1][2], JGet(j, "batch_range")[2][2][2] >>]

deserialize_line(j) ==
    [seek |-> JGet(j, "seek")[2],
     size |-> JGet(j, "size")[2],
     content |-> JGet(j, "content")[2],
     skip |-> JGet(j, "skip")[2],
     translated |-> LET a == JGet(j, "translated")[2]
                    IN  [k \in 1..Len(a) |-> deserialize_translated(a[k])]]

\* Textures::load: the Textures read from the content of the sidecar
load(json) ==
    [lines |-> LET a == JGet(json, "lines")[2]
               IN  [k \in 1..Len(a) |-> deserialize_line(a[k])],
     curr_index |-> JGet(json, "curr_index")[2],
     name |-> JGet(json, "name")[2]]

\* -------------------------------------------------------------- extractor
\* A raw line: whether extract_line accepts it, its byte length, and of its
\* text what the batcher reads: the first character and the token count.
RECURSIVE parseFrom_accepted(_, _, _)
parseFrom_accepted(raw, k, seek) ==
    IF k > Len(raw) THEN <<>>
    ELSE IF raw[k].acc
         THEN <<TextureLine(seek, raw[k].size, [pre |-> raw[k].pre, tok |-> raw[k].tok], FALSE)>>
              \o parseFrom_accepted(raw, k + 1, seek + raw[k].size)
         ELSE parseFrom_accepted(raw, k + 1, seek)

RECURSIVE parseFrom(_, _, _)
parseFrom(raw, k, seek) ==
    IF k > Len(raw) THEN <<>>
    ELSE (IF raw[k].acc
          THEN <<TextureLine(seek, raw[k].size, [pre |-> raw[k].pre, tok |-> raw[k].tok], FALSE)>>
          ELSE <<>>)
         \o parseFrom(raw, k + 1, seek + raw[k].size)

parse(raw) == [lines |-> parseFrom(raw, 1, 0), curr_index |-> 0, name |-> ""]

\* the path of the input file, which names the sidecars
file_path == "f"

\* Input::read: the sidecar, when present, replaces the extraction
read(raw, side) ==
    IF side # NoFile THEN load(side[1]) ELSE [parse(raw) EXCEPT !.name = @ \o file_path]

RECURSIVE FileSize(_)
FileSize(raw) == IF raw = <<>> THEN 0 ELSE raw[1].size + FileSize(Tail(raw))

\* BufReader::read_line at byte k (from 1): the bytes up to and including the
\* next newline, or up to the end of the file; 0 at the end of the file
Newline == "\n"
RECURSIVE read_line(_, _)
read_line(bytes, k) ==
    IF k > Len(bytes) THEN 0
    ELSE IF bytes[k] = Newline THEN 1
    ELSE 1 + read_line(bytes, k + 1)

\* extract_line is the implementor's; here a line is accepted when it starts
\* with the byte "a"
extract_line(bytes, k) == bytes[k] = "a"

\* the raw lines the loop of Input::parse reads from byte k on
RECURSIVE read_lines(_, _)
read_lines(bytes, k) ==
    LET size == read_line(bytes, k)
    IN  IF size = 0 THEN <<>>
        ELSE <<[acc |-> extract_line(bytes, k), size |-> size, tok |-> 1,
                pre |-> bytes[k]]>>
             \o read_lines(bytes, k + size)


\* ---------------------------------------------------------------- batcher
\* TokenizedBatchizer::batchize: the number of lines of the batch starting at
\* `start`. sum is the local max_tokens, budget is self.max_tokens, size > 0
\* stands for !str_content.is_empty().
RECURSIVE batchizeFrom_strict(_, _, _, _, _, _)
batchizeFrom_strict(tex, i, sum, prefix, size, budget) ==
    IF i >= NLines(tex) THEN size
    ELSE LET line == Line(tex, i)
             sum1 == sum + line.content.tok
             is_same_suffix == line.content.pre = prefix
         IN  IF ~is_same_suffix /\ sum1 > budget
             THEN size
             ELSE batchizeFrom_strict(tex, i + 1, sum1, line.content.pre, size + 1, budget)

RECURSIVE batchizeFrom_first_prefix(_, _, _, _, _, _)
batchizeFrom_first_prefix(tex, i, sum, prefix, size, budget) ==
    IF i >= NLines(tex) THEN size
    ELSE LET line == Line(tex, i)
             sum1 == sum + line.content.tok
             is_same_suffix == line.content.pre = prefix
             prefix1 == IF prefix = NoChar THEN line.content.pre ELSE prefix
         IN  IF ~is_same_suffix /\ sum1 > budget /\ size > 0
             THEN size
             ELSE batchizeFrom_first_prefix(tex, i + 1, sum1, prefix1, size + 1, budget)

RECURSIVE batchizeFrom_budget_only(_, _, _, _, _, _)
batchizeFrom_budget_only(tex, i, sum, prefix, size, budget) ==
    IF i >= NLines(tex) THEN size
    ELSE LET line == Line(tex, i)
             sum1 == sum + line.content.tok
         IN  IF sum1 > budget /\ size > 0
             THEN size
             ELSE batchizeFrom_budget_only(tex, i + 1, sum1, line.content.pre, size + 1, budget)

RECURSIVE batchizeFrom(_, _, _, _, _, _)
batchizeFrom(tex, i, sum, prefix, size, budget) ==
    IF i >= NLines(tex) THEN size
    ELSE LET line == Line(tex, i)
             sum1 == sum + line.content.tok
             prefix_a == line.content.pre
             is_same_suffix == prefix_a = prefix
             prefix1 == IF is_same_suffix THEN prefix ELSE prefix_a
         IN  IF ~is_same_suffix /\ sum1 > budget /\ size > 0
             THEN size
             ELSE batchizeFrom(tex, i + 1, sum1, prefix1, size + 1, budget)

batchize(tex, start, budget) == batchizeFrom(tex, start, 0, NoChar, 0, budget)

Reverse_kept(q) == q

RECURSIVE Reverse(_)
Reverse(q) == IF q = <<>> THEN <<>> ELSE Append(Reverse(Tail(q)), Head(q))

\* line_count_batchized: one range split into sub-batches of max_size lines
RECURSIVE splitRange(_, _, _)
splitRange(i, end, size) ==
    IF i > end THEN <<>>
    ELSE IF size + 1 = max_size \/ i = end
         THEN <<(<<i + 1 - (size + 1), i>>)>> \o splitRange(i + 1, end, 0)
         ELSE splitRange(i + 1, end, size + 1)

RECURSIVE splitRanges(_)
splitRanges(ranges) ==
    IF ranges = <<>> THEN <<>>
    ELSE splitRange(ranges[1][1], ranges[1][2], 0) \o splitRanges(Tail(ranges))

line_count_batchized(tex, spec) ==
    IF spec # None THEN Reverse(splitRanges(spec[1])) ELSE <<>>

\* the while loop of create_batch_queue (token-bounded path); a batch is
\* written as its range (start, end), the payload being a function of it
RECURSIVE queueFrom(_, _, _, _, _)
queueFrom(tex, spec, budget, i, spec_range_index) ==
    IF i >= NLines(tex) THEN <<>>
    ELSE LET size == batchize(tex, i, budget)
             batch == <<i, i + size - 1>>
         IN  IF spec # None
             THEN IF spec_range_index + 1 >= Len(spec[1])
                  THEN <<batch>>
                  ELSE <<batch>> \o queueFrom(tex, spec, budget,
                                              spec[1][spec_range_index + 2][1],
                                              spec_range_index + 1)
             ELSE <<batch>> \o queueFrom(tex, spec, budget, i + size, spec_range_index)

create_batch_queue_next(tex, spec, budget) ==
    IF ~by_line_count
    THEN Reverse(queueFrom(tex, spec, budget,
                           IF spec # None THEN spec[1][1][1] ELSE tex.curr_index + 1, 0))
    ELSE line_count_batchized(tex, spec)

create_batch_queue_resumed(tex, spec, budget) ==
    IF ~by_line_count
    THEN Reverse(queueFrom(tex, spec, budget,
                           IF spec # None THEN Max(spec[1][1][1], tex.curr_index)
                           ELSE tex.curr_index, 0))
    ELSE line_count_batchized(tex, spec)

create_batch_queue(tex, spec, budget) ==
    IF ~by_line_count
    THEN Reverse(queueFrom(tex, spec, budget,
                           IF spec # None THEN spec[1][1][1] ELSE tex.curr_index, 0))
    ELSE line_count_batchized(tex, spec)

\* ------------------------------------------------------ output formatter
\* A response is a sequence of response lines; a line the capture rule does
\* not match is "junk", a captured line carries the translated text: "echo"
\* is the source line's own text, "tr" any other text.
extract_lines(content) == SelectSeq(content, LAMBDA l : l # "junk")

\* The bytes of the original are written as their offsets, so every original
\* byte has its own value; a byte of translated text is written as -1.
Bytes(a, b) == [k \in 1..(b - a) |-> a + k - 1]

format_line(raw, text) ==
    IF text = "echo" THEN Bytes(raw.seek, raw.seek + raw.size) ELSE <<-1>>

\* the responses a request for a batch of n lines may return
Responses(n) ==
    { Rep("echo", n), <<"junk">> \o Rep("tr", n), Rep("tr", n - 1), Rep("tr", n + 1) }

\* --------------------------------------------------------------- rewriter
\* impl Output for T: RewriteOutput. A byte written to the output is
\* [b |-> its value, src |-> FromFile or the batch range it was formatted for].
\* pos is the read cursor of `reader`.
FromFile == <<-1, -1>>

Copied(from, to)   == [k \in 1..(to - from) |-> [b |-> from + k - 1, src |-> FromFile]]
Formatted(bs, rng) == [k \in 1..Len(bs) |-> [b |-> bs[k], src |-> rng]]

RewriteStart ==
    [i |-> 0, pre_read_at |-> 0, last_read_at |-> 0, pos |-> 0,
     out |-> <<>>, dignostic_failed_range |-> <<>>]

\* lines 172-190: copy the original bytes [pre_read_at, line.seek)
copy_until(st, line) ==
    IF line.seek > st.pre_read_at
    THEN LET from == st.pos + (st.pre_read_at - st.last_read_at)
             size == line.seek - st.pre_read_at
         IN  [st EXCEPT !.out = @ \o Copied(from, from + size),
                        !.pos = from + size,
                        !.last_read_at = st.pre_read_at + size,
                        !.pre_read_at = line.seek]
    ELSE st

\* lines 221-226: the formatted lines of a batch whose length check passed
RECURSIVE write_lines(_, _, _, _, _)
write_lines(tex, i, tran_lines, j, rng) ==
    IF j >= Len(tran_lines) THEN <<>>
    ELSE Formatted(format_line(Line(tex, i + j), tran_lines[j + 1]), rng)
         \o write_lines(tex, i, tran_lines, j + 1, rng)

\* lines 227-228: where reading resumes after a batch that was written
after_batch(tex, last_line_index_in_batch) ==
    Line(tex, last_line_index_in_batch).seek + Line(tex, last_line_index_in_batch).size

\* lines 169-235: the walk over textures.lines
RECURSIVE walk(_, _, _)
walk(tex, translator, st) ==
    IF st.i >= NLines(tex) THEN st
    ELSE LET line == Line(tex, st.i)
             k == Find(line.translated, translator)
         IN  IF k = 0 THEN walk(tex, translator, [st EXCEPT !.i = @ + 1])
             ELSE LET translated == line.translated[k]
                      st1 == copy_until(st, line)
                      tran_lines == extract_lines(translated.content)
                      rng == translated.batch_range
                  IN  IF Len(tran_lines) # rng[2] - rng[1] + 1
                      THEN walk(tex, translator,
                                [st1 EXCEPT !.dignostic_failed_range = Append(@, rng),
                                            !.i = rng[2] + 1])
                      ELSE walk(tex, translator,
                                [st1 EXCEPT !.out = @ \o write_lines(tex, st.i, tran_lines, 0, rng),
                                            !.pre_read_at =
                                                after_batch(tex, st.i + Len(tran_lines) - 1),
                                            !.i = rng[2] + 1])

\* lines 236-249: the rest of the original after the walk
flush(raw, st) ==
    LET from == st.pos + (st.pre_read_at - st.last_read_at)
    IN  st.out \o Copied(from, FileSize(raw))

output(raw, translator, tex) ==
    LET st == walk(tex, translator, RewriteStart)
    IN  [out |-> flush(raw, st), dignostic_failed_range |-> st.dignostic_failed_range]

\* lines 250-263: the failed-range sidecar after a rewrite. The file removed
\* when nothing failed is <name>.dignostic_failed.json, which nothing writes.
write_diag_removed(old, failed_range) ==
    IF failed_range = <<>> THEN NoFile ELSE Some(failed_range)

write_diag(old, failed_range) ==
    IF failed_range = <<>> THEN old ELSE Some(failed_range)

\* ------------------------------------------------- the job across runs
\* The raw lines of a job: accepted by extract_line or not, 1..MaxLineSize
\* bytes, one token each; the first characters of consecutive raw lines
\* differ, so two extracted lines share a prefix only across a skipped line.
Layouts == UNION { [1..n -> [acc : BOOLEAN, size : 1..MaxLineSize]] : n \in 1..MaxRaw }
FileOf(layout) ==
    [k \in 1..Len(layout) |->
        [acc |-> layout[k].acc, size |-> layout[k].size, tok |-> 1,
         pre |-> IF k % 2 = 1 THEN "a" ELSE "b"]]
Files == { FileOf(l) : l \in Layouts }

BatchLen(b) == b[2] - b[1] + 1

PipeIdle ==
    /\ sidecar = NoFile /\ diag = NoFile /\ phase = "idle"
    /\ cfg = [max_tokens |-> 0, max_concurrent |-> 0, output_regexen |-> 0,
              output_only |-> FALSE]
    /\ specify_range = None /\ textures = [lines |-> <<>>, curr_index |-> 0, name |-> ""]
    /\ queue0 = <<>> /\ queue = <<>> /\ inflight = {}
    /\ rewritten = NoFile /\ failed = <<>> /\ runs = 0

\* output.rs lines 17 and 27: the regexes an output needs
required_regexen == 2

\* lib.rs start, lines 82-117, and Translate::translate, lines 132-136: load
\* the failed ranges and the Textures, build the queue
Start(max_tokens, max_concurrent, output_regexen) ==
    /\ phase \in {"idle", "exit", "failed"}
    /\ runs < MaxRuns
    /\ runs' = runs + 1
    /\ cfg' = [max_tokens |-> max_tokens, max_concurrent |-> max_concurrent,
               output_regexen |-> output_regexen, output_only |-> FALSE]
    /\ specify_range' = (IF diag # NoFile THEN Some(diag[1]) ELSE None)
    /\ textures' = read(file, sidecar)
    /\ queue0' = create_batch_queue(textures', specify_range', max_tokens)
    /\ queue' = queue0'
    /\ inflight' = {}
    /\ phase' = "translating"
    /\ UNCHANGED <<file, sidecar, diag, rewritten, failed>>
    /\ UNCHANGED <<runVars, unitVars>>

StartOutputOnly_translates(max_tokens, max_concurrent) ==
    /\ phase \in {"idle", "exit", "failed"}
    /\ runs < MaxRuns
    /\ runs' = runs + 1
    /\ cfg' = [max_tokens |-> max_tokens, max_concurrent |-> max_concurrent,
               output_regexen |-> required_regexen, output_only |-> TRUE]
    /\ specify_range' = (IF diag # NoFile THEN Some(diag[1]) ELSE None)
    /\ textures' = read(file, sidecar)
    /\ queue0' = create_batch_queue(textures', specify_range', max_tokens)
    /\ queue' = queue0'
    /\ inflight' = {}
    /\ phase' = "translating"
    /\ UNCHANGED <<file, sidecar, diag, rewritten, failed>>
    /\ UNCHANGED <<runVars, unitVars>>

\* lib.rs start, lines 82-114, with -j/--outputonly: the failed ranges and
\* the Textures are loaded and start returns output(&cfg, &textures);
\* translate is not called, so no queue exists
StartOutputOnly(max_tokens, max_concurrent) ==
    /\ phase \in {"idle", "exit", "failed"}
    /\ runs < MaxRuns
    /\ runs' = runs + 1
    /\ cfg' = [max_tokens |-> max_tokens, max_concurrent |-> max_concurrent,
               output_regexen |-> required_regexen, output_only |-> TRUE]
    /\ specify_range' = (IF diag # NoFile THEN Some(diag[1]) ELSE None)
    /\ textures' = read(file, sidecar)
    /\ queue0' = <<>>
    /\ queue' = <<>>
    /\ inflight' = {}
    /\ phase' = "output"
    /\ UNCHANGED <<file, sidecar, diag, rewritten, failed>>
    /\ UNCHANGED <<runVars, unitVars>>

\* translator.rs lines 149-155: a worker pops the tail of the queue; at most
\* min(max_concurrent, batch_len) workers exist
Pop ==
    /\ phase = "translating"
    /\ queue # <<>>
    /\ Cardinality(inflight) < Min(cfg.max_concurrent, Len(queue0))
    /\ inflight' = inflight \cup {queue[Len(queue)]}
    /\ queue' = SubSeq(queue, 1, Len(queue) - 1)
    /\ UNCHANGED <<file, sidecar, diag, phase, cfg, specify_range, textures,
                   queue0, rewritten, failed, runs>>
    /\ UNCHANGED <<runVars, unitVars>>

\* translator.rs lines 158-175 and 70-71: the request for a popped batch
\* succeeds and the supervisor applies the result
Record(batch, content) ==
    /\ phase = "translating"
    /\ batch \in inflight
    /\ textures' = update(textures, TranslatedLine(ChatGPT, content, batch[1], batch[2]))
    /\ inflight' = inflight \ {batch}
    /\ UNCHANGED <<file, sidecar, diag, phase, cfg, specify_range, queue0,
                   queue, rewritten, failed, runs>>
    /\ UNCHANGED <<runVars, unitVars>>

\* translator.rs lines 83-86: the final checkpoint, on completion (nothing
\* queued or in flight) or on interrupt (at any moment)
EndTranslate(interrupted) ==
    /\ phase = "translating"
    /\ interrupted \/ (queue = <<>> /\ inflight = {})
    /\ sidecar' = Some(save(textures))
    /\ inflight' = {}
    /\ phase' = "output"
    /\ UNCHANGED <<file, diag, cfg, specify_range, textures, queue0, queue,
                   rewritten, failed, runs>>
    /\ UNCHANGED <<runVars, unitVars>>

\* lib.rs line 118 and output.rs lines 14-44: the check of output_regexen,
\* then the rewriter
Output ==
    /\ phase = "output"
    /\ IF cfg.output_regexen < required_regexen
       THEN /\ phase' = "failed"
            /\ UNCHANGED <<rewritten, failed, diag>>
       ELSE /\ LET r == output(file, ChatGPT, textures)
               IN  /\ rewritten' = Some(r.out)
                   /\ failed' = r.dignostic_failed_range
                   /\ diag' = write_diag(diag, r.dignostic_failed_range)
            /\ phase' = "exit"
    /\ UNCHANGED <<file, sidecar, cfg, specify_range, textures, queue0, queue,
                   inflight, runs>>
    /\ UNCHANGED <<runVars, unitVars>>

\* ------------------------------------- one call of translate, task level
Workers == 1..MaxWorkers

\* the Textures of a file of n extracted lines of one token each whose first
\* characters alternate
RunFile(n) == [k \in 1..n |-> [acc |-> TRUE, size |-> 1, tok |-> 1,
                               pre |-> IF k % 2 = 1 THEN "a" ELSE "b"]]

RunConfigs ==
    [max_tokens : 1..MaxBudget, max_concurrent : 0..MaxWorkers,
     pool : 1..MaxPool, chatgpt_opt : BOOLEAN, empty : {{}}]

\* the configurations with a translator and any max_concurrent (an i32),
\* negative included
SpawnConfigs ==
    [max_tokens : 1..MaxBudget, max_concurrent : (-1)..MaxWorkers,
     pool : 1..MaxPool, chatgpt_opt : {TRUE}, empty : {{}}]

\* the configurations with a translator whose api_pool has entries with an
\* empty api_key or api_url
PoolConfigs ==
    UNION { [max_tokens : 1..MaxBudget, max_concurrent : 0..MaxWorkers,
             pool : {p}, chatgpt_opt : {TRUE},
             empty : (SUBSET (0..(p - 1))) \ {{}}] : p \in 1..MaxPool }

\* the responses a request may return in a task-level run
RunResponses(n) == { Rep("tr", n), Rep("tr", n - 1) }

\* translator.rs line 35 and lines 60, 182: the values sent on the close channels
interrupt_signal == 3
finished_signal  == 1

\* translator.rs lines 21-67: channels created, watcher and translator task
\* spawned, wait_for_translations counted, nothing run yet
RunStart(n, c) ==
    /\ rcfg = c
    /\ snapshot = read(RunFile(n), NoFile)
    /\ textures_mut = snapshot
    /\ rq = <<>>
    /\ wpc = [w \in Workers |-> "unspawned"]
    /\ wbatch = [w \in Workers |-> None]
    /\ wresult = [w \in Workers |-> None]
    /\ wclient = [w \in Workers |-> 0]
    /\ tpc = (IF c.chatgpt_opt THEN "start" ELSE "absent")
    /\ wait_for_close = 0
    /\ wclose = <<>> /\ chan = <<>> /\ close = <<>>
    /\ sigpc = "wait"
    /\ spc = "loop"
    /\ wait_for_translations = (IF c.chatgpt_opt THEN 1 ELSE 0)
    /\ saved = NoFile
    /\ slast = "none"
    /\ sent = <<>> /\ received = <<>>
    /\ elapsed = FALSE

\* the receivers rx and close_rx live until translate returns
SupAlive == spc = "loop"

worker_count_short(max_concurrent, batch_len) == Min(max_concurrent, batch_len) - 1

worker_count_per_batch(max_concurrent, batch_len) == batch_len

worker_count_unbounded(max_concurrent, batch_len) == max_concurrent

\* translator.rs line 136
worker_count(max_concurrent, batch_len) == Min(max_concurrent, batch_len)

create_client_saturating(count, pool) == Min(count, pool - 1)

create_client_counted_first(count, pool) == (count + 1) % pool

\* ChatGPT create_client, chatgpt.rs lines 179-181: credential of the n-th client
create_client(count, pool) == count % pool

\* chatgpt.rs lines 225-238: ChatGPTClient::new panics on an empty api_key
\* or api_url. The workers of the loop of translator.rs lines 141-185 that
\* are spawned before create_client reaches such an entry.
spawned(W, pool, empty) ==
    LET bad == { w \in 1..W : create_client(w - 1, pool) \in empty }
    IN  IF bad = {} THEN W ELSE (CHOOSE w \in bad : \A v \in bad : w <= v) - 1

\* translator.rs lines 132-185: queue built, workers spawned, counter set;
\* a panic in create_client ends the translator task between two spawns
TranslatorStart ==
    /\ tpc = "start"
    /\ LET q == create_batch_queue(snapshot, None, rcfg.max_tokens)
           W == worker_count(rcfg.max_concurrent, Len(q))
           S == spawned(W, rcfg.pool, rcfg.empty)
       IN  /\ rq' = q
           /\ wpc' = [w \in Workers |-> IF w <= S THEN "top" ELSE "unspawned"]
           /\ wclient' = [w \in Workers |->
                            IF w <= S THEN create_client(w - 1, rcfg.pool) ELSE 0]
           /\ wait_for_close' = (IF S = W THEN W ELSE 0)
           /\ tpc' = (IF S = W THEN "wait" ELSE "panicked")
    /\ UNCHANGED <<rcfg, snapshot, wbatch, wresult, wclose, chan, close, sigpc,
                   spc, wait_for_translations, textures_mut, saved, slast, sent,
                   received>>
    /\ UNCHANGED <<pipeVars, unitVars, elapsed>>

\* translator.rs lines 149-156: top of the worker loop
WTop(w) ==
    /\ wpc[w] = "top"
    /\ IF wbatch[w] = None
       THEN IF rq = <<>>
            THEN /\ wpc' = [wpc EXCEPT ![w] = "close"]
                 /\ UNCHANGED <<rq, wbatch>>
            ELSE /\ wbatch' = [wbatch EXCEPT ![w] = Some(rq[Len(rq)])]
                 /\ rq' = SubSeq(rq, 1, Len(rq) - 1)
                 /\ wpc' = [wpc EXCEPT ![w] = "request"]
       ELSE /\ wpc' = [wpc EXCEPT ![w] = "request"]
            /\ UNCHANGED <<rq, wbatch>>
    /\ UNCHANGED <<rcfg, snapshot, wresult, wclient, tpc, wait_for_close, wclose,
                   chan, close, sigpc, spc, wait_for_translations, textures_mut,
                   saved, slast, sent, received>>
    /\ UNCHANGED <<pipeVars, unitVars, elapsed>>

\* translator.rs lines 158-169 and chatgpt.rs lines 208-221: the request
\* returns Ok(translated)
RequestOk(w) ==
    /\ wpc[w] = "request"
    /\ LET br == wbatch[w][1]
       IN  \E content \in RunResponses(BatchLen(br)) :
             wresult' = [wresult EXCEPT ![w] =
                           Some(TranslatedLine(ChatGPT, content, br[1], br[2]))]
    /\ wpc' = [wpc EXCEPT ![w] = "send"]
    /\ UNCHANGED <<rcfg, snapshot, rq, wbatch, wclient, tpc, wait_for_close,
                   wclose, chan, close, sigpc, spc, wait_for_translations,
                   textures_mut, saved, slast, sent, received>>
    /\ UNCHANGED <<pipeVars, unitVars, elapsed>>

RequestErrRequeue(w) ==
    /\ wpc[w] = "request"
    /\ rq' = Append(rq, wbatch[w][1])
    /\ wbatch' = [wbatch EXCEPT ![w] = None]
    /\ wpc' = [wpc EXCEPT ![w] = "top"]
    /\ UNCHANGED <<rcfg, snapshot, wresult, wclient, tpc, wait_for_close,
                   wclose, chan, close, sigpc, spc, wait_for_translations,
                   textures_mut, saved, slast, sent, received>>
    /\ UNCHANGED <<pipeVars, unitVars, elapsed>>

\* translator.rs lines 176-179: the request returns Err; batch_and_range is kept
RequestErr(w) ==
    /\ wpc[w] = "request"
    /\ wpc' = [wpc EXCEPT ![w] = "top"]
    /\ UNCHANGED <<rcfg, snapshot, rq, wbatch, wresult, wclient, tpc,
                   wait_for_close, wclose, chan, close, sigpc, spc,
                   wait_for_translations, textures_mut, saved, slast, sent,
                   received>>
    /\ UNCHANGED <<pipeVars, unitVars, elapsed>>

WSendKeep(w) ==
    /\ wpc[w] = "send"
    /\ SupAlive /\ Len(chan) < 1
    /\ chan' = Append(chan, wresult[w][1])
    /\ sent' = Append(sent, wresult[w][1])
    /\ wresult' = [wresult EXCEPT ![w] = None]
    /\ wpc' = [wpc EXCEPT ![w] = "top"]
    /\ UNCHANGED <<rcfg, snapshot, rq, wbatch, wclient, tpc, wait_for_close,
                   wclose, close, sigpc, spc, wait_for_translations,
                   textures_mut, saved, slast, received>>
    /\ UNCHANGED <<pipeVars, unitVars, elapsed>>

WSendUnbounded(w) ==
    /\ wpc[w] = "send"
    /\ IF SupAlive
       THEN /\ chan' = Append(chan, wresult[w][1])
            /\ sent' = Append(sent, wresult[w][1])
       ELSE UNCHANGED <<chan, sent>>
    /\ wbatch' = [wbatch EXCEPT ![w] = None]
    /\ wresult' = [wresult EXCEPT ![w] = None]
    /\ wpc' = [wpc EXCEPT ![w] = "top"]
    /\ UNCHANGED <<rcfg, snapshot, rq, wclient, tpc, wait_for_close, wclose,
                   close, sigpc, spc, wait_for_translations, textures_mut,
                   saved, slast, received>>
    /\ UNCHANGED <<pipeVars, unitVars, elapsed>>

\* translator.rs lines 170-174: sender.send(translated).await, which waits for
\* room in the channel and fails once the receiver is dropped; either way
\* batch_and_range is cleared
WSend(w) ==
    /\ wpc[w] = "send"
    /\ IF SupAlive
       THEN /\ Len(chan) < 1
            /\ chan' = Append(chan, wresult[w][1])
            /\ sent' = Append(sent, wresult[w][1])
       ELSE UNCHANGED <<chan, sent>>
    /\ wbatch' = [wbatch EXCEPT ![w] = None]
    /\ wresult' = [wresult EXCEPT ![w] = None]
    /\ wpc' = [wpc EXCEPT ![w] = "top"]
    /\ UNCHANGED <<rcfg, snapshot, rq, wclient, tpc, wait_for_close, wclose,
                   close, sigpc, spc, wait_for_translations, textures_mut,
                   saved, slast, received>>
    /\ UNCHANGED <<pipeVars, unitVars, elapsed>>

\* translator.rs line 182: close_tx.send(1).await after the loop; the send
\* fails, and expect panics in the worker, once the translator task is gone
WClose(w) ==
    /\ wpc[w] = "close"
    /\ IF tpc = "panicked"
       THEN UNCHANGED wclose
       ELSE Len(wclose) < 1 /\ wclose' = Append(wclose, finished_signal)
    /\ wpc' = [wpc EXCEPT ![w] = "done"]
    /\ UNCHANGED <<rcfg, snapshot, rq, wbatch, wresult, wclient, tpc,
                   wait_for_close, chan, close, sigpc, spc,
                   wait_for_translations, textures_mut, saved, slast, sent,
                   received>>
    /\ UNCHANGED <<pipeVars, unitVars, elapsed>>

\* translator.rs lines 186-196: the translator task counts the workers out
TranslatorRecv ==
    /\ tpc = "wait"
    /\ wait_for_close > 0
    /\ wclose # <<>>
    /\ wait_for_close' = wait_for_close - Head(wclose)
    /\ wclose' = Tail(wclose)
    /\ UNCHANGED <<rcfg, snapshot, rq, wpc, wbatch, wresult, wclient, tpc, chan,
                   close, sigpc, spc, wait_for_translations, textures_mut,
                   saved, slast, sent, received>>
    /\ UNCHANGED <<pipeVars, unitVars, elapsed>>

TranslatorReturnEarly ==
    /\ tpc = "wait"
    /\ wait_for_close <= 1
    /\ tpc' = "signal"
    /\ UNCHANGED <<rcfg, snapshot, rq, wpc, wbatch, wresult, wclient,
                   wait_for_close, wclose, chan, close, sigpc, spc,
                   wait_for_translations, textures_mut, saved, slast, sent,
                   received>>
    /\ UNCHANGED <<pipeVars, unitVars, elapsed>>

TranslatorReturn ==
    /\ tpc = "wait"
    /\ wait_for_close <= 0
    /\ tpc' = "signal"
    /\ UNCHANGED <<rcfg, snapshot, rq, wpc, wbatch, wresult, wclient,
                   wait_for_close, wclose, chan, close, sigpc, spc,
                   wait_for_translations, textures_mut, saved, slast, sent,
                   received>>
    /\ UNCHANGED <<pipeVars, unitVars, elapsed>>

\* translator.rs lines 60-62: close_tx_r.send(1).await
TranslatorSignal ==
    /\ tpc = "signal"
    /\ IF SupAlive
       THEN Len(close) < 1 /\ close' = Append(close, finished_signal)
       ELSE UNCHANGED close
    /\ tpc' = "done"
    /\ UNCHANGED <<rcfg, snapshot, rq, wpc, wbatch, wresult, wclient,
                   wait_for_close, wclose, chan, sigpc, spc,
                   wait_for_translations, textures_mut, saved, slast, sent,
                   received>>
    /\ UNCHANGED <<pipeVars, unitVars, elapsed>>

\* translator.rs lines 32-34: the interrupt reaches the watcher task
CtrlC ==
    /\ sigpc = "wait"
    /\ sigpc' = "send"
    /\ UNCHANGED <<rcfg, snapshot, rq, wpc, wbatch, wresult, wclient, tpc,
                   wait_for_close, wclose, chan, close, spc,
                   wait_for_translations, textures_mut, saved, slast, sent,
                   received>>
    /\ UNCHANGED <<pipeVars, unitVars, elapsed>>

SigSendNothing ==
    /\ sigpc = "send"
    /\ sigpc' = "done"
    /\ UNCHANGED <<rcfg, snapshot, rq, wpc, wbatch, wresult, wclient, tpc,
                   wait_for_close, wclose, chan, close, spc,
                   wait_for_translations, textures_mut, saved, slast, sent,
                   received>>
    /\ UNCHANGED <<pipeVars, unitVars, elapsed>>

\* translator.rs lines 35-37: close_tx_c.send(3).await
SigSend ==
    /\ sigpc = "send"
    /\ IF SupAlive
       THEN Len(close) < 1 /\ close' = Append(close, interrupt_signal)
       ELSE UNCHANGED close
    /\ sigpc' = "done"
    /\ UNCHANGED <<rcfg, snapshot, rq, wpc, wbatch, wresult, wclient, tpc,
                   wait_for_close, wclose, chan, spc, wait_for_translations,
                   textures_mut, saved, slast, sent, received>>
    /\ UNCHANGED <<pipeVars, unitVars, elapsed>>

checkpoint_skipped(old, tex) == old

\* Textures::save, textures.rs lines 15-21: the sidecar after a write that succeeds
checkpoint(old, tex) == Some(save(tex))

sup_continue_nosave(wait, tex, side, last) ==
    IF wait <= 0
    THEN [spc |-> "returned", saved |-> side, slast |-> last]
    ELSE [spc |-> "loop", saved |-> side, slast |-> last]

\* translator.rs lines 83-86, with the write succeeding: the supervisor's
\* position, sidecar and last operation after an event was handled
sup_continue(wait, tex, side, last) ==
    IF wait <= 0
    THEN [spc |-> "returned", saved |-> checkpoint(side, tex), slast |-> "save"]
    ELSE [spc |-> "loop", saved |-> side, slast |-> last]

\* translator.rs lines 70-75 and 83-86: a result is read and applied; finished
\* is what timer.finished() returns, which resets the timer when it is true;
\* every write succeeds
SupLine(finished) ==
    /\ spc = "loop"
    /\ chan # <<>>
    /\ chan' = Tail(chan)
    /\ received' = Append(received, Head(chan))
    /\ textures_mut' = update(textures_mut, Head(chan))
    /\ LET side == IF finished THEN checkpoint(saved, textures_mut') ELSE saved
           r == sup_continue(wait_for_translations, textures_mut', side,
                             IF finished THEN "save" ELSE "update")
       IN  spc' = r.spc /\ saved' = r.saved /\ slast' = r.slast
    /\ elapsed' = (IF finished THEN FALSE ELSE elapsed)
    /\ UNCHANGED <<rcfg, snapshot, rq, wpc, wbatch, wresult, wclient, tpc,
                   wait_for_close, wclose, close, sigpc, wait_for_translations,
                   sent>>
    /\ UNCHANGED <<pipeVars, unitVars>>

\* translator.rs lines 76-78 and 83-86: a close value is read; the write succeeds
SupClose ==
    /\ spc = "loop"
    /\ close # <<>>
    /\ close' = Tail(close)
    /\ wait_for_translations' = wait_for_translations - Head(close)
    /\ LET r == sup_continue(wait_for_translations', textures_mut, saved, "close")
       IN  spc' = r.spc /\ saved' = r.saved /\ slast' = r.slast
    /\ UNCHANGED <<rcfg, snapshot, rq, wpc, wbatch, wresult, wclient, tpc,
                   wait_for_close, wclose, chan, sigpc, textures_mut, sent,
                   received>>
    /\ UNCHANGED <<pipeVars, unitVars, elapsed>>

\* translator.rs lines 73 and 84: save()? fails and translate returns the
\* error; the sidecar is left as it was or unusable
SupLineFail(truncated) ==
    /\ spc = "loop"
    /\ chan # <<>>
    /\ chan' = Tail(chan)
    /\ received' = Append(received, Head(chan))
    /\ textures_mut' = update(textures_mut, Head(chan))
    /\ spc' = "err"
    /\ saved' = (IF truncated THEN NoFile ELSE saved)
    /\ slast' = "update"
    /\ elapsed' = FALSE
    /\ UNCHANGED <<rcfg, snapshot, rq, wpc, wbatch, wresult, wclient, tpc,
                   wait_for_close, wclose, close, sigpc, wait_for_translations,
                   sent>>
    /\ UNCHANGED <<pipeVars, unitVars>>

SupCloseFail(truncated) ==
    /\ spc = "loop"
    /\ close # <<>>
    /\ wait_for_translations - Head(close) <= 0
    /\ close' = Tail(close)
    /\ wait_for_translations' = wait_for_translations - Head(close)
    /\ spc' = "err"
    /\ saved' = (IF truncated THEN NoFile ELSE saved)
    /\ slast' = "close"
    /\ UNCHANGED <<rcfg, snapshot, rq, wpc, wbatch, wresult, wclient, tpc,
                   wait_for_close, wclose, chan, sigpc, textures_mut, sent,
                   received>>
    /\ UNCHANGED <<pipeVars, unitVars, elapsed>>

\* ------------------------------------ components driven on their own
\* every TranslatedLine a request for a batch of tex may return
Changes(tex) ==
    UNION { { TranslatedLine(ChatGPT, c, b[1], b[2]) : c \in Responses(BatchLen(b)) } :
            b \in { x \in (0..(NLines(tex) - 1)) \X (0..(NLines(tex) - 1)) : x[1] <= x[2] } }

\* textures.rs lines 28-40: one call of Textures::update
UUpdate(t) ==
    /\ utex' = update(utex, t)
    /\ usaved = NoFile
    /\ UNCHANGED <<uraw, upool, client_count, clients, ubatch, ubytes, usaved, uloaded, uqueue>>
    /\ UNCHANGED <<pipeVars, runVars, uesc>>

\* chatgpt.rs lines 50-56: the entries an api_pool may hold
Credentials == [api_key : {"key1", "key2"}, api_url : {"url1", "url2"}]
Pools == UNION { [1..p -> Credentials] : p \in 1..MaxPool }

\* chatgpt.rs lines 179-188: one call of create_client
UCreateClient ==
    /\ client_count < MaxClients
    /\ LET i == create_client(client_count, Len(upool))
           api == upool[i + 1]
       IN  clients' = Append(clients, [credential |-> i, api_key |-> api.api_key,
                                       api_url |-> api.api_url])
    /\ client_count' = client_count + 1
    /\ UNCHANGED <<uraw, utex, upool, ubatch, ubytes, usaved, uloaded, uqueue>>
    /\ UNCHANGED <<pipeVars, runVars, uesc>>

\* the files given to the batcher: every line extracted, 1..MaxTok tokens
TokenFiles ==
    UNION { [1..n -> [acc : {TRUE}, size : {1}, tok : 1..MaxTok, pre : {"a", "b"}]] :
            n \in 1..MaxUnitLines }

\* chatgpt.rs lines 19-49: one call of batchize(textures, start) by a
\* batchizer whose max_tokens is budget
UBatchize(start, budget) ==
    /\ start < NLines(utex)
    /\ ubatch' = Some([start |-> start, max_tokens |-> budget,
                       size |-> batchize(utex, start, budget)])
    /\ UNCHANGED <<uraw, utex, upool, client_count, clients, ubytes, usaved, uloaded, uqueue>>
    /\ UNCHANGED <<pipeVars, runVars, uesc>>

\* Input::read of a file without a sidecar
ByteFiles == UNION { [1..n -> {"a", "s", Newline}] : n \in 0..MaxBytes }

UParse ==
    /\ utex.name = ""
    /\ uraw' = read_lines(ubytes, 1)
    /\ utex' = read(uraw', NoFile)
    /\ UNCHANGED <<upool, client_count, clients, ubatch, ubytes, usaved, uloaded, uqueue>>
    /\ UNCHANGED <<pipeVars, runVars, uesc>>

\* create_batch_queue without a reprocessing range list
UCreateQueue(budget) ==
    /\ uqueue' = Some([max_tokens |-> budget,
                       queue |-> create_batch_queue(utex, None, budget)])
    /\ UNCHANGED <<uraw, utex, upool, client_count, clients, ubatch, ubytes, usaved,
                   uloaded>>
    /\ UNCHANGED <<pipeVars, runVars, uesc>>

\* the reprocessing range lists: one or two ranges of lines
LineRanges == { r \in (0..(MaxUnitLines - 1)) \X (0..(MaxUnitLines - 1)) : r[1] <= r[2] }
RangeLists == { <<r>> : r \in LineRanges } \cup (LineRanges \X LineRanges)

\* create_batch_queue with a reprocessing range list, called once
UCreateQueueRanges(ranges, budget) ==
    /\ uqueue = None
    /\ uqueue' = Some([max_tokens |-> budget, specify_range |-> ranges,
                       queue |-> create_batch_queue(utex, Some(ranges), budget)])
    /\ UNCHANGED <<uraw, utex, upool, client_count, clients, ubatch, ubytes, usaved,
                   uloaded>>
    /\ UNCHANGED <<pipeVars, runVars, uesc>>

\* textures.rs lines 15-21: Textures::save writes <name>.textures.json
sidecar_path(name) == name \o ".textures.json"

USave ==
    /\ usaved = NoFile
    /\ usaved' = Some([path |-> sidecar_path(utex.name), json |-> save(utex)])
    /\ UNCHANGED <<uraw, utex, upool, client_count, clients, ubatch, ubytes, uloaded,
                   uqueue>>
    /\ UNCHANGED <<pipeVars, runVars, uesc>>

\* textures.rs lines 22-27: Textures::load of a name reads <name>.textures.json
ULoad(name) ==
    /\ usaved # NoFile /\ uloaded = None
    /\ usaved[1].path = sidecar_path(name)
    /\ uloaded' = Some(load(usaved[1].json))
    /\ UNCHANGED <<uraw, utex, upool, client_count, clients, ubatch, ubytes, usaved,
                   uqueue>>
    /\ UNCHANGED <<pipeVars, runVars, uesc>>

\* ------------------------------------------------------- specifications
RunIdle == RunStart(1, [max_tokens |-> 1, max_concurrent |-> 0, pool |-> 1,
                        chatgpt_opt |-> FALSE, empty |-> {}])

\* no component is driven on its own
UnitIdle ==
    /\ uraw = <<>> /\ utex = parse(<<>>) /\ upool = <<>>
    /\ client_count = 0 /\ clients = <<>> /\ ubatch = None /\ ubytes = <<>>
    /\ usaved = NoFile /\ uloaded = None /\ uqueue = None
    /\ uesc = None

Init == file \in Files /\ PipeIdle /\ RunIdle /\ UnitIdle

Next ==
    \/ \E m \in 1..MaxBudget, c \in 1..MaxWorkers : Start(m, c, required_regexen)
    \/ Pop
    \/ \E b \in inflight : \E content \in Responses(BatchLen(b)) : Record(b, content)
    \/ \E interrupted \in BOOLEAN : EndTranslate(interrupted)
    \/ Output

Spec == Init /\ [][Next]_vars

\* The same runs with any number of output_regexen in the configuration, on
\* the files of at most two raw lines (the check of output_regexen reads
\* nothing of the file)
RegexInit ==
    /\ file \in { f \in Files : Len(f) <= 2 }
    /\ PipeIdle /\ RunIdle /\ UnitIdle

RegexNext ==
    \/ \E m \in 1..MaxBudget, c \in 1..MaxWorkers, r \in 1..MaxRegexen : Start(m, c, r)
    \/ Pop
    \/ \E b \in inflight : \E content \in Responses(BatchLen(b)) : Record(b, content)
    \/ \E interrupted \in BOOLEAN : EndTranslate(interrupted)
    \/ Output

SpecRegexen == RegexInit /\ [][RegexNext]_vars

\* Runs with or without -j/--outputonly, on the files of at most two raw
\* lines
OutputOnlyNext ==
    \/ \E m \in 1..MaxBudget, c \in 1..MaxWorkers : Start(m, c, required_regexen)
    \/ \E m \in 1..MaxBudget, c \in 1..MaxWorkers : StartOutputOnly(m, c)
    \/ Pop
    \/ \E b \in inflight : \E content \in Responses(BatchLen(b)) : Record(b, content)
    \/ \E interrupted \in BOOLEAN : EndTranslate(interrupted)
    \/ Output

SpecOutputOnly == RegexInit /\ [][OutputOnlyNext]_vars

RunInit ==
    /\ file = <<>> /\ PipeIdle /\ UnitIdle
    /\ \E n \in 1..RunLines, c \in RunConfigs : RunStart(n, c)

RunNext ==
    \/ TranslatorStart
    \/ \E w \in Workers : WTop(w)
    \/ \E w \in Workers : RequestOk(w)
    \/ \E w \in Workers : RequestErr(w)
    \/ \E w \in Workers : WSend(w)
    \/ \E w \in Workers : WClose(w)
    \/ TranslatorRecv
    \/ TranslatorReturn
    \/ TranslatorSignal
    \/ CtrlC
    \/ SigSend
    \/ \E finished \in BOOLEAN : SupLine(finished)
    \/ SupClose
    \/ \E truncated \in BOOLEAN : SupLineFail(truncated)
    \/ \E truncated \in BOOLEAN : SupCloseFail(truncated)

SpecRun == RunInit /\ [][RunNext]_vars

\* The same tasks on inputs with or without extracted lines and any
\* max_concurrent
SpawnInit ==
    /\ file = <<>> /\ PipeIdle /\ UnitIdle
    /\ \E n \in 0..RunLines, c \in SpawnConfigs : RunStart(n, c)

SpecSpawn == SpawnInit /\ [][RunNext]_vars

\* The same tasks on a configuration whose api_pool has an entry with an
\* empty api_key or api_url
PoolInit ==
    /\ file = <<>> /\ PipeIdle /\ UnitIdle
    /\ \E n \in 1..RunLines, c \in PoolConfigs : RunStart(n, c)

SpecPool == PoolInit /\ [][RunNext]_vars

\* The same tasks with every checkpoint write succeeding
RunNextOk ==
    \/ TranslatorStart
    \/ \E w \in Workers : WTop(w)
    \/ \E w \in Workers : RequestOk(w)
    \/ \E w \in Workers : RequestErr(w)
    \/ \E w \in Workers : WSend(w)
    \/ \E w \in Workers : WClose(w)
    \/ TranslatorRecv
    \/ TranslatorReturn
    \/ TranslatorSignal
    \/ CtrlC
    \/ SigSend
    \/ \E finished \in BOOLEAN : SupLine(finished)
    \/ SupClose

\* The watcher and the supervisor are scheduled; select! polls its ready
\* branches in random order, so a close value that stays ready is read.
\* Nothing is assumed of the workers' requests.
SpecInterrupt ==
    /\ RunInit /\ [][RunNextOk]_vars
    /\ WF_vars(SigSend)
    /\ WF_vars(SupClose)

\* Every task is scheduled and a request that is retried forever succeeds
\* at last.
SpecComplete ==
    /\ RunInit /\ [][RunNextOk]_vars
    /\ WF_vars(TranslatorStart)
    /\ \A w \in Workers : WF_vars(WTop(w))
    /\ \A w \in Workers : SF_vars(RequestOk(w))
    /\ \A w \in Workers : WF_vars(WSend(w))
    /\ \A w \in Workers : WF_vars(WClose(w))
    /\ WF_vars(TranslatorRecv)
    /\ WF_vars(TranslatorReturn)
    /\ WF_vars(TranslatorSignal)
    /\ WF_vars(SigSend)
    /\ WF_vars(\E finished \in BOOLEAN : SupLine(finished))
    /\ WF_vars(SupClose)

Range(q) == { q[k] : k \in 1..Len(q) }

\* Textures::update called in any order on freshly extracted Textures
UpdInit ==
    /\ file = <<>> /\ PipeIdle /\ RunIdle
    /\ \E n \in 1..MaxUnitLines : uraw = RunFile(n)
    /\ utex = read(uraw, NoFile)
    /\ upool = <<>> /\ client_count = 0 /\ clients = <<>> /\ ubatch = None
    /\ ubytes = <<>> /\ usaved = NoFile /\ uloaded = None /\ uqueue = None
    /\ uesc = None

UpdNext == \E t \in Changes(utex) : UUpdate(t)

SpecUpdate == UpdInit /\ [][UpdNext]_vars

\* TranslateChatGPT::new with a pool, then create_client called repeatedly
ClientsInit ==
    /\ file = <<>> /\ PipeIdle /\ RunIdle
    /\ uraw = <<>> /\ utex = parse(<<>>) /\ ubatch = None /\ ubytes = <<>>
    /\ usaved = NoFile /\ uloaded = None /\ uqueue = None
    /\ uesc = None
    /\ upool \in Pools
    /\ client_count = 0 /\ clients = <<>>

ClientsNext == UCreateClient

SpecClients == ClientsInit /\ [][ClientsNext]_vars

\* TokenizedBatchizer::batchize called on freshly extracted Textures
BatchInit ==
    /\ file = <<>> /\ PipeIdle /\ RunIdle
    /\ uraw \in TokenFiles
    /\ utex = read(uraw, NoFile)
    /\ upool = <<>> /\ client_count = 0 /\ clients = <<>> /\ ubatch = None
    /\ ubytes = <<>> /\ usaved = NoFile /\ uloaded = None /\ uqueue = None
    /\ uesc = None

BatchNext ==
    \E start \in 0..(MaxUnitLines - 1), budget \in 0..MaxBudget : UBatchize(start, budget)

SpecBatch == BatchInit /\ [][BatchNext]_vars

\* create_batch_queue called on Textures with any curr_index
QueueInit ==
    /\ file = <<>> /\ PipeIdle /\ RunIdle
    /\ uraw \in TokenFiles \cup {<<>>}
    /\ \E c \in 0..MaxUnitLines : utex = [read(uraw, NoFile) EXCEPT !.curr_index = c]
    /\ upool = <<>> /\ client_count = 0 /\ clients = <<>> /\ ubatch = None
    /\ ubytes = <<>> /\ usaved = NoFile /\ uloaded = None /\ uqueue = None
    /\ uesc = None

QueueNext == \E budget \in 0..MaxBudget : UCreateQueue(budget)

SpecQueue == QueueInit /\ [][QueueNext]_vars

\* create_batch_queue called with any reprocessing range list on Textures
\* with any curr_index
QueueRangesNext ==
    \E ranges \in RangeLists, budget \in 0..MaxBudget : UCreateQueueRanges(ranges, budget)

SpecQueueRanges == QueueInit /\ [][QueueRangesNext]_vars

\* Input::read on a file of any bytes
ExtInit ==
    /\ file = <<>> /\ PipeIdle /\ RunIdle
    /\ ubytes \in ByteFiles
    /\ uraw = <<>> /\ utex = parse(<<>>)
    /\ upool = <<>> /\ client_count = 0 /\ clients = <<>> /\ ubatch = None
    /\ usaved = NoFile /\ uloaded = None /\ uqueue = None
    /\ uesc = None

ExtNext == UParse

SpecExtract == ExtInit /\ [][ExtNext]_vars

\* Textures of any file, parsed alone (no name) or read (named after the
\* file), updated in any order, then saved and loaded by name
PersistInit ==
    /\ file = <<>> /\ PipeIdle /\ RunIdle
    /\ ubytes \in ByteFiles
    /\ uraw = read_lines(ubytes, 1)
    /\ utex \in {parse(uraw), read(uraw, NoFile)}
    /\ upool = <<>> /\ client_count = 0 /\ clients = <<>> /\ ubatch = None
    /\ usaved = NoFile /\ uloaded = None /\ uqueue = None
    /\ uesc = None

PersistNext ==
    \/ \E t \in Changes(utex) : UUpdate(t)
    \/ USave
    \/ \E name \in {"", file_path} : ULoad(name)

SpecPersist == PersistInit /\ [][PersistNext]_vars

\* ------------------------------------------------- claims: rewriter
\* the translations recorded for the translator, and whether the response of
\* one has the shape of its batch
Recorded(tex) ==
    UNION { { tex.lines[k].translated[j] :
                j \in { n \in 1..Len(tex.lines[k].translated) :
                          tex.lines[k].translated[n].translator = ChatGPT } } :
            k \in 1..NLines(tex) }

Matched(t) == Len(extract_lines(t.content)) = BatchLen(t.batch_range)

LineBytes(tex, i) == Line(tex, i).seek .. (Line(tex, i).seek + Line(tex, i).size - 1)

\* the bytes of the extracted lines of the shape-matched batches
ReplacedBytes(tex) ==
    UNION { UNION { LineBytes(tex, i) : i \in t.batch_range[1]..t.batch_range[2] } :
            t \in { r \in Recorded(tex) : Matched(r) } }

\* the original bytes found in the output, in output order, that were copied
\* from the file and lie in `keep`
CopiedOf(out, keep) ==
    LET sel == SelectSeq(out, LAMBDA e : e.src = FromFile /\ e.b \in keep)
    IN  [k \in 1..Len(sel) |-> sel[k].b]

RECURSIVE Ascending(_, _, _)
Ascending(keep, a, b) ==
    IF a >= b THEN <<>>
    ELSE (IF a \in keep THEN <<a>> ELSE <<>>) \o Ascending(keep, a + 1, b)

OutBytes(out) == [k \in 1..Len(out) |-> out[k].b]

\* out holds the bytes a..b-1 of the original, copied, contiguous and in order
HoldsSpan(out, a, b) ==
    \E p \in 0..(Len(out) - (b - a)) :
        \A k \in 1..(b - a) : out[p + k] = [b |-> a + k - 1, src |-> FromFile]

\* C1: after a rewrite, the output holds every byte of the original that is
\* not in an extracted line of a shape-matched batch, unchanged and in the
\* original order, the non-extracted lines inside a batch included.
C1_PreservesUntranslated ==
    phase = "exit" =>
        LET keep == (0..(FileSize(file) - 1)) \ ReplacedBytes(textures)
        IN  CopiedOf(rewritten[1], keep) = Ascending(keep, 0, FileSize(file))

\* C2: rewrite identity: when every recorded batch has the shape of its range
\* and every translated line formats to the raw bytes of its line, the output
\* is byte-identical to the original.
C2_RewriteIdentity ==
    (/\ phase = "exit"
     /\ \A t \in Recorded(textures) :
            Matched(t) /\ \A k \in 1..Len(t.content) : t.content[k] = "echo")
        => OutBytes(rewritten[1]) = Bytes(0, FileSize(file))

\* C3: unmatched pass-through: for every recorded batch whose response has
\* not the shape of its range, the output holds no text formatted for that
\* batch and holds the original bytes of lines start..end unchanged.
C3_UnmatchedPassThrough ==
    phase = "exit" =>
        \A t \in Recorded(textures) :
            ~Matched(t) =>
                /\ \A k \in 1..Len(rewritten[1]) : rewritten[1][k].src # t.batch_range
                /\ HoldsSpan(rewritten[1],
                             Line(textures, t.batch_range[1]).seek,
                             Line(textures, t.batch_range[2]).seek
                                 + Line(textures, t.batch_range[2]).size)

\* C4: after a rewrite, the failed-range list holds exactly the ranges of the
\* recorded batches whose response has not the shape of the range, each once.
C4_FailedRangesExact ==
    phase = "exit" =>
        LET bad == { t.batch_range : t \in { r \in Recorded(textures) : ~Matched(r) } }
        IN  /\ Range(failed) = bad
            /\ Len(failed) = Cardinality(bad)

\* C5: when a failed-range list is loaded as specify_range, the queue built
\* consists of sub-batches of at most max_size consecutive lines that cover
\* exactly the lines of the listed ranges.
C5_RangeQueueSplit ==
    (phase = "translating" /\ specify_range # None) =>
        /\ \A b \in Range(queue0) : b[1] <= b[2] /\ BatchLen(b) <= max_size
        /\ UNION { b[1]..b[2] : b \in Range(queue0) }
             = UNION { r[1]..r[2] : r \in Range(specify_range[1]) }
        /\ queue0 = line_count_batchized(textures, specify_range)

\* ------------------------------------------------ claims: translate
RECURSIVE ApplyAll(_, _)
ApplyAll(tex, changes) ==
    IF changes = <<>> THEN tex ELSE ApplyAll(update(tex, Head(changes)), Tail(changes))

\* the batches of this call's queue
RunBatches == Range(create_batch_queue(snapshot, None, rcfg.max_tokens))

\* C6: when translate returns by translator completion, with no interrupt,
\* every result a worker sent on the result channel has been read and
\* applied by update: nothing is left in the channel.
C6_AllSentApplied ==
    (spc = "returned" /\ sigpc = "wait")
        => /\ chan = <<>>
           /\ received = sent
           /\ textures_mut = ApplyAll(snapshot, sent)

\* C7: whenever translate returns successfully, by completion or by
\* interrupt, the supervisor's last operation was a checkpoint write and the
\* sidecar holds the mutable Textures with every update read so far applied.
C7_FinalCheckpoint ==
    spc = "returned"
        => /\ slast = "save"
           /\ saved = Some(save(textures_mut))
           /\ textures_mut = ApplyAll(snapshot, received)

C7_Witness ==
    /\ spc = "returned" /\ sigpc = "done" /\ tpc = "wait"
    /\ Len(received) >= 1
    /\ saved = Some(save(textures_mut))

\* C8: once the interrupt has reached the watcher, the supervisor eventually
\* writes the final checkpoint and returns, whatever the workers do.
C8_InterruptReturns ==
    (sigpc # "wait") ~> (spc = "returned" /\ slast = "save")

C8_Witness ==
    /\ spc = "returned" /\ sigpc = "done" /\ slast = "save"
    /\ rq # <<>>
    /\ \E w \in Workers : wpc[w] = "top" /\ wbatch[w] # None

\* C9: with a translator configured and no interrupt, if every request
\* succeeds at last, then every batch of the queue is published on the result
\* channel exactly once, every worker terminates, the translator signals
\* completion and the supervisor returns.
Completed ==
    /\ spc = "returned"
    /\ tpc = "done"
    /\ \A w \in Workers : wpc[w] \in {"done", "unspawned"}
    /\ Len(sent) = Cardinality(RunBatches)
    /\ { t.batch_range : t \in Range(sent) } = RunBatches

C10_Held ==
    \A w \in Workers :
        /\ wbatch[w] # None =>
              /\ wbatch[w][1] \notin Range(rq)
              /\ \A v \in Workers \ {w} : wbatch[v] # wbatch[w]
        /\ wpc[w] = "request" => ENABLED RequestErr(w)

C10_Step ==
    \A w \in Workers :
        /\ (wpc[w] = "request" /\ wpc'[w] = "top")
              => /\ wbatch[w] # None
                 /\ wbatch'[w] = wbatch[w]
                 /\ wclient'[w] = wclient[w]
                 /\ rq' = rq
        /\ (wpc[w] = "top" /\ wbatch[w] # None /\ wpc'[w] # "top")
              => /\ wpc'[w] = "request"
                 /\ wbatch'[w] = wbatch[w]
                 /\ wclient'[w] = wclient[w]
                 /\ rq' = rq

C10_RetryKeepsBatch == []C10_Held /\ [][C10_Step]_vars

C10_Witness ==
    \E w \in Workers : wpc[w] = "top" /\ wbatch[w] # None /\ rq # <<>>

\* ------------------------------------------------- claims: data model
\* C11: update idempotence: on every Textures reached by updates and for
\* every TranslatedLine with a valid start, applying update twice gives the
\* Textures that applying it once gives.
C11_UpdateIdempotent ==
    \A t \in Changes(utex) : update(update(utex, t), t) = update(utex, t)

C11_Witness ==
    /\ utex.curr_index > 0
    /\ \E k \in 1..NLines(utex) :
          /\ Len(utex.lines[k].translated) = 1
          /\ \E t \in Changes(utex) :
                /\ t.batch_range[1] = k - 1
                /\ t # utex.lines[k].translated[1]
                /\ update(utex, t) # utex

\* C12: after any sequence of updates every line holds at most one
\* TranslatedLine per translator, each stored on the line of its batch start,
\* and an update for a start that holds one replaces it in place.
C12_Stored ==
    \A k \in 1..NLines(utex) :
        LET ts == utex.lines[k].translated
        IN  /\ \A i, j \in 1..Len(ts) : ts[i].translator = ts[j].translator => i = j
            /\ \A i \in 1..Len(ts) : ts[i].batch_range[1] = k - 1

C12_ReplaceStep ==
    /\ NLines(utex') = NLines(utex)
    /\ \A k \in 1..NLines(utex) :
          /\ Len(utex.lines[k].translated) >= 1
                => Len(utex'.lines[k].translated) = Len(utex.lines[k].translated)
          /\ Len(utex'.lines[k].translated) <= Len(utex.lines[k].translated) + 1
          /\ [utex'.lines[k] EXCEPT !.translated = <<>>]
                = [utex.lines[k] EXCEPT !.translated = <<>>]

C12_OnePerTranslator == []C12_Stored /\ [][C12_ReplaceStep]_vars

C12_Witness ==
    /\ \A k \in 1..NLines(utex) : Len(utex.lines[k].translated) = 1
    /\ NLines(utex) >= 2
    /\ utex.lines[1].translated[1].batch_range = <<0, 1>>
    /\ utex.lines[2].translated[1].batch_range = <<1, 1>>
    /\ utex.curr_index = 0 + 1

\* C13: after any sequence of updates, in whatever order the workers'
\* results arrive, curr_index is the highest batch end recorded so far.
C13_CurrIndexHighest ==
    received # <<>> =>
        LET ends == { t.batch_range[2] : t \in Recorded(textures_mut) }
        IN  /\ textures_mut.curr_index \in ends
            /\ \A e \in ends : e <= textures_mut.curr_index

\* ------------------------------------------------ claims: dispatch
Ceil(a, b) == (a + b - 1) \div b

\* C14: round-robin: the n-th client created (n = 0, 1, ...) holds credential
\* n mod P of the pool, so after K calls credential i has been used
\* ceil((K - i) / P) times when K > i and never otherwise.
C14_RoundRobin ==
    LET P == Len(upool)
        K == Len(clients)
    IN  /\ K = client_count
        /\ \A n \in 0..(K - 1) :
              /\ clients[n + 1].credential = n % P
              /\ clients[n + 1].api_key = upool[(n % P) + 1].api_key
              /\ clients[n + 1].api_url = upool[(n % P) + 1].api_url
        /\ \A i \in 0..(P - 1) :
              Cardinality({ n \in 1..K : clients[n].credential = i })
                  = (IF K > i THEN Ceil(K - i, P) ELSE 0)

C14_Witness ==
    /\ Len(upool) >= 2
    /\ Len(clients) > Len(upool) + 1
    /\ upool[1] # upool[2]

\* ------------------------------------------------- claims: batcher
\* tokens of lines a..b of tex
RECURSIVE TokSum(_, _, _)
TokSum(tex, a, b) ==
    IF a > b THEN 0 ELSE Line(tex, a).content.tok + TokSum(tex, a + 1, b)

\* the queue in source order is a chain of non-empty batches from `from` to
\* the last line
Chained(q, from, n) ==
    /\ q # <<>>
    /\ q[1][1] = from
    /\ q[Len(q)][2] = n - 1
    /\ \A k \in 1..Len(q) : q[k][1] <= q[k][2]
    /\ \A k \in 1..(Len(q) - 1) : q[k + 1][1] = q[k][2] + 1

\* C15: batcher monotonicity: for every start below the number of lines
\* batchize returns size >= 1, whatever max_tokens is, so the queue built
\* from it advances from curr_index to the last line and ends.
C15_BatcherAdvances ==
    ubatch # None =>
        LET b == ubatch[1]
        IN  /\ b.size >= 1
            /\ b.start + b.size <= NLines(utex)
            /\ \A s \in 0..(NLines(utex) - 1) : batchize(utex, s, b.max_tokens) >= 1
            /\ Chained(Reverse(create_batch_queue(utex, None, b.max_tokens)),
                       utex.curr_index, NLines(utex))

C15_Witness ==
    /\ ubatch # None
    /\ ubatch[1].max_tokens = 0
    /\ ubatch[1].size = 1
    /\ NLines(utex) >= 2
    /\ Line(utex, ubatch[1].start).content.tok = MaxTok

\* a line of the batch past its first that took the total over the budget
\* and was kept for starting with the first character of the line before it
HeldOpen(tex, b) ==
    \E j \in (b.start + 1)..(b.start + b.size - 1) :
        /\ TokSum(tex, b.start, j) > b.max_tokens
        /\ Line(tex, j).content.pre = Line(tex, j - 1).content.pre

\* C16: the tokens of the lines of a batch total at most max_tokens, unless
\* the batch was held open by lines past the budget that start with the
\* first character of the line before them.
C16_WithinBudget ==
    ubatch # None =>
        LET b == ubatch[1]
        IN  TokSum(utex, b.start, b.start + b.size - 1) <= b.max_tokens
                \/ HeldOpen(utex, b)

\* C16 with the first line of a batch always taken: the total is within the
\* budget unless the batch was held open or its first line alone exceeds
\* the budget, and every later line either keeps the running total within
\* the budget or starts with the first character of the line before it.
C16_WithinBudgetPastFirst ==
    ubatch # None =>
        LET b == ubatch[1]
        IN  /\ \/ TokSum(utex, b.start, b.start + b.size - 1) <= b.max_tokens
               \/ HeldOpen(utex, b)
               \/ Line(utex, b.start).content.tok > b.max_tokens
            /\ \A j \in (b.start + 1)..(b.start + b.size - 1) :
                  \/ TokSum(utex, b.start, j) <= b.max_tokens
                  \/ Line(utex, j).content.pre = Line(utex, j - 1).content.pre

C16_Witness ==
    /\ ubatch # None
    /\ ubatch[1].size >= 2
    /\ ubatch[1].start + ubatch[1].size < NLines(utex)
    /\ TokSum(utex, ubatch[1].start, ubatch[1].start + ubatch[1].size - 1)
          = ubatch[1].max_tokens

\* ------------------------------------------------- claims: extraction
\* the bytes of line i of tex are one whole line of the file: they start the
\* file or follow a newline, and hold no newline before their last byte,
\* which is a newline or the last byte of the file
WholeLine(bytes, l) ==
    /\ l.size >= 1 /\ l.seek >= 0 /\ l.seek + l.size <= Len(bytes)
    /\ l.seek = 0 \/ bytes[l.seek] = Newline
    /\ \A k \in (l.seek + 1)..(l.seek + l.size - 1) : bytes[k] # Newline
    /\ bytes[l.seek + l.size] = Newline \/ l.seek + l.size = Len(bytes)

\* the indexes of the raw lines extract_line accepts, in file order
AcceptedAt(raw) ==
    LET idx == [k \in 1..Len(raw) |-> k]
    IN  SelectSeq(idx, LAMBDA k : raw[k].acc)

\* C17: the extracted lines are the accepted raw lines in file order, the
\* seek of each is the sum of the sizes of all raw lines read before it,
\* adjacent lines do not overlap, and the sizes of the raw lines read sum to
\* the size of the file.
C17_ByteAccounting ==
    utex.name = file_path =>
        LET at == AcceptedAt(uraw)
        IN  /\ NLines(utex) = Len(at)
            /\ \A i \in 0..(NLines(utex) - 1) :
                  /\ Line(utex, i).seek = FileSize(SubSeq(uraw, 1, at[i + 1] - 1))
                  /\ Line(utex, i).size = uraw[at[i + 1]].size
                  /\ WholeLine(ubytes, Line(utex, i))
                  /\ extract_line(ubytes, Line(utex, i).seek + 1)
            /\ \A i \in 0..(NLines(utex) - 2) :
                  Line(utex, i).seek + Line(utex, i).size <= Line(utex, i + 1).seek
            /\ FileSize(uraw) = Len(ubytes)

\* a skipped line between two extracted ones, the last without a newline
C17_Witness ==
    /\ utex.name = file_path
    /\ NLines(utex) = 2
    /\ Len(uraw) = 3
    /\ Line(utex, 1).seek > Line(utex, 0).seek + Line(utex, 0).size
    /\ Line(utex, 1).seek + Line(utex, 1).size = Len(ubytes)
    /\ ubytes[Len(ubytes)] # Newline

\* ------------------------------------------------- claims: persistence
\* C18: save followed by load of the same name yields a Textures equal
\* field by field (lines with their translations, curr_index, name).
C18_RoundTrip ==
    uloaded # None =>
        /\ uloaded[1].lines = utex.lines
        /\ uloaded[1].curr_index = utex.curr_index
        /\ uloaded[1].name = utex.name
        /\ uloaded[1] = read(uraw, Some(usaved[1].json))

\* a named Textures with a translation on a line after a skipped raw line
C18_Witness ==
    /\ uloaded # None
    /\ utex.name = file_path
    /\ NLines(utex) >= 2
    /\ utex.curr_index = 1
    /\ Line(utex, 1).seek > 1
    /\ Line(utex, 0).translated # <<>>
    /\ Line(utex, 1).translated # <<>>

\* ------------------------------------------------- claims: configuration
\* a translation request is on its way or was answered
Requested == \E w \in Workers : wpc[w] \in {"request", "send"}

\* C19: when an entry of api_pool has an empty api_key or api_url, no
\* translation request is ever sent, whatever the position of the entry and
\* the number of workers.
C19_EmptyCredentialNoRequest ==
    (rcfg.chatgpt_opt /\ rcfg.empty # {}) => ~Requested

\* C20: with fewer than two output_regexen configured no translation
\* request is sent: the run fails before any batch is handed to a worker.
C20_RegexenCheckedFirst ==
    (phase # "idle" /\ cfg.output_regexen < required_regexen) => inflight = {}

\* ------------------------------------------------- claims: output only
\* C21: in output-only mode no batch is queued or requested, the Textures
\* are the ones loaded or extracted at startup and stay so, the textures
\* sidecar is not written, and the rewriter runs on those Textures.
C21_NoTranslation ==
    cfg.output_only =>
        /\ phase \in {"output", "exit"}
        /\ queue = <<>> /\ inflight = {}
        /\ textures = read(file, sidecar)
        /\ phase = "exit" => rewritten = Some(output(file, ChatGPT, textures).out)

C21_SidecarKept == cfg'.output_only => sidecar' = sidecar

C21_OutputOnly == []C21_NoTranslation /\ [][C21_SidecarKept]_vars

\* an output-only run on the sidecar of an earlier run, rewriter done
C21_Witness ==
    /\ cfg.output_only /\ phase = "exit"
    /\ sidecar # NoFile
    /\ \E i \in 0..(NLines(textures) - 1) : Line(textures, i).translated # <<>>
    /\ rewritten # NoFile

\* ------------------------------------------------- claims: reruns
\* every batch of queue q has its translation recorded in tex
AllRecorded(tex, q) ==
    \A b \in Range(q) : \E t \in Recorded(tex) : t.batch_range = b

\* the lines some recorded translation of tex covers
CoveredLines(tex) ==
    UNION { t.batch_range[1]..t.batch_range[2] : t \in Recorded(tex) }

\* C22: a run started from the checkpoint of a completed run (every batch
\* recorded, no failed-range file) queues no batch over lines whose
\* translation is recorded, and leaves the recorded translations as they are.
C22_RerunStep ==
    (/\ phase = "exit" /\ phase' = "translating"
     /\ diag = NoFile /\ queue0 # <<>> /\ AllRecorded(textures, queue0))
    => /\ textures' = textures
       /\ \A b \in Range(queue0') : (b[1]..b[2]) \cap CoveredLines(textures') = {}

C22_IdempotentRerun == [][C22_RerunStep]_vars

\* ------------------------------------------------- claims: workers
\* the workers whose request is on its way
InFlight == { w \in Workers : wpc[w] = "request" }

StopsAt(tex, b, j) ==
    /\ TokSum(tex, b.start, j) > b.max_tokens
    /\ Line(tex, j).content.pre # Line(tex, j - 1).content.pre

\* C24: the batch called at s ends just before the first line j > s at
\* which the cumulative tokens of s..j exceed max_tokens and the first
\* character differs from that of line j - 1; without such a line it runs
\* to the last line.
C24_BatchEnd ==
    ubatch # None =>
        LET b == ubatch[1]
            e == b.start + b.size
            stops == { j \in (b.start + 1)..(NLines(utex) - 1) : StopsAt(utex, b, j) }
        IN  /\ e <= NLines(utex)
            /\ stops = {} => e = NLines(utex)
            /\ stops # {} => e \in stops /\ \A j \in stops : e <= j

\* a batch kept open past the budget by a shared first character, ended by
\* a line that starts otherwise
C24_Witness ==
    /\ ubatch # None
    /\ ubatch[1].start = 0 /\ ubatch[1].size = 2 /\ ubatch[1].max_tokens = 1
    /\ NLines(utex) = 3
    /\ Line(utex, 0).content.pre = Line(utex, 1).content.pre
    /\ Line(utex, 2).content.pre # Line(utex, 1).content.pre

\* ------------------------------------------------- claims: queue
\* C25: without a reprocessing range list the ranges of the queue are
\* non-empty, pairwise disjoint and contiguous, and cover exactly the lines
\* from curr_index to the last; the queue is empty when curr_index is not
\* smaller than the number of lines.
C25_QueueCovers ==
    uqueue # None =>
        LET q == uqueue[1].queue
            lines == UNION { q[k][1]..q[k][2] : k \in 1..Len(q) }
        IN  /\ \A k \in 1..Len(q) : q[k][1] <= q[k][2]
            /\ \A k \in 1..Len(q) : \A j \in 1..Len(q) :
                  k # j => (q[k][1]..q[k][2]) \cap (q[j][1]..q[j][2]) = {}
            /\ \A k \in 1..(Len(q) - 1) : q[k][1] = q[k + 1][2] + 1
            /\ lines = utex.curr_index..(NLines(utex) - 1)
            /\ utex.curr_index >= NLines(utex) => q = <<>>

\* a queue of two batches that starts past the first line
C25_Witness ==
    /\ uqueue # None
    /\ utex.curr_index = 1
    /\ NLines(utex) = MaxUnitLines
    /\ Len(uqueue[1].queue) = 2
    /\ uqueue[1].queue[2] = <<1, 1>>

\* ------------------------------------------------- claims: pop order
\* C26: batches leave the shared queue in source order: whichever worker
\* pops, the batch popped starts after every batch popped before it and
\* before every batch still queued.
C26_PopStep ==
    (rq # <<>> /\ rq' = SubSeq(rq, 1, Len(rq) - 1)) =>
        LET b == rq[Len(rq)]
        IN  /\ \A p \in RunBatches \ Range(rq) : p[1] < b[1]
            /\ \A r \in Range(rq') : b[1] < r[1]

C26_PopsInSourceOrder == [][C26_PopStep]_vars

\* two batches popped by two workers, the second while the first is held
C26_Witness ==
    /\ rq = <<>> /\ Len(create_batch_queue(snapshot, None, rcfg.max_tokens)) = 2
    /\ \E w \in Workers : \E v \in Workers :
          /\ w # v
          /\ wbatch[w] = Some(<<0, 0>>)
          /\ wbatch[v] = Some(<<1, 1>>)

\* ------------------------------------------------- claims: spawning
\* the workers the translator task has spawned
Spawned == { w \in Workers : wpc[w] # "unspawned" }

\* C27: once the translator task has built its queue, the workers spawned
\* are min(max_concurrent, queue length) in number; with an empty queue or
\* max_concurrent <= 0 there is none, no client exists, and the translator
\* has no close value to wait for before it signals completion.
C27_WorkerCount ==
    tpc \notin {"start", "absent"} =>
        LET len == Len(create_batch_queue(snapshot, None, rcfg.max_tokens))
            W == IF rcfg.max_concurrent < len THEN rcfg.max_concurrent ELSE len
        IN  /\ Spawned = 1..W
            /\ (len = 0 \/ rcfg.max_concurrent <= 0) =>
                   /\ Spawned = {}
                   /\ \A w \in Workers : wbatch[w] = None /\ wresult[w] = None
                   /\ wait_for_close <= 0 /\ wclose = <<>>
                   /\ sent = <<>>

\* nothing extracted, workers allowed: the translator has signalled
C27_EmptyQueueDone ==
    /\ NLines(snapshot) = 0
    /\ rcfg.max_concurrent = MaxWorkers
    /\ tpc = "done"
    /\ Spawned = {}
    /\ spc = "returned"

\* ------------------------------------------------- claims: credentials
\* The spawn loop gives worker t (t = 0, 1, ...) the client of the t-th call
\* of create_client: the workers that hold credential i among W workers
Holders(i) == { t \in 0..(Len(clients) - 1) : clients[t + 1].credential = i }

\* the workers i, i + stride, i + 2 stride, ... among W workers
Every(i, stride, W) == { t \in 0..(W - 1) : \E k \in 0..W : t = i + k * stride }

\* C28: with W workers and a pool of P credentials, credential i is the one
\* held by workers i, i + W, i + 2W, ...
C28_StrideW ==
    \A i \in 0..(Len(upool) - 1) : Holders(i) = Every(i, Len(clients), Len(clients))

\* C28 with the stride of the pool: credential i is the one held by workers
\* i, i + P, i + 2P, ...
C28_StrideP ==
    \A i \in 0..(Len(upool) - 1) : Holders(i) = Every(i, Len(upool), Len(clients))

\* more workers than twice the pool: a credential held by three workers
C28_Witness ==
    /\ Len(upool) = 2
    /\ Len(clients) >= 5
    /\ {0, 2, 4} \subseteq Holders(0)
    /\ {1, 3} \subseteq Holders(1)

\* ------------------------------------------------- claims: arrival order
\* C29: two results with distinct start indices applied in either order
\* leave the same lines, translations and name (curr_index aside) and the
\* same rewriter output; holding from every Textures the updates reach, it
\* holds for every order of any number of results.
C29_OrderIndependent ==
    \A t1 \in Changes(utex) : \A t2 \in Changes(utex) :
        t1.batch_range[1] # t2.batch_range[1] =>
            LET a == update(update(utex, t1), t2)
                b == update(update(utex, t2), t1)
            IN  /\ a.lines = b.lines
                /\ a.name = b.name
                /\ output(uraw, ChatGPT, a) = output(uraw, ChatGPT, b)

\* results recorded for the second batch before the first
C29_Witness ==
    /\ NLines(utex) >= 2
    /\ Line(utex, 0).translated # <<>>
    /\ Line(utex, 1).translated # <<>>
    /\ Line(utex, 0).translated[1].batch_range = <<0, 0>>
    /\ Line(utex, 1).translated[1].batch_range[1] = 1
    /\ utex.curr_index = 0

\* ------------------------------------------------- claims: resume
\* the lines of the batches of queue q
QueuedLines(q) == UNION { b[1]..b[2] : b \in Range(q) }

\* C30: the queue of a run, the resumed run of an interrupted one included,
\* built from curr_index holds every line that no recorded translation
\* covers, so that once all of its batches are recorded every extracted
\* line is covered by a recorded batch.
C30_ResumeCovers ==
    (phase \in {"translating", "output", "exit"} /\ specify_range = None) =>
        /\ QueuedLines(queue0) \cup CoveredLines(textures) = 0..(NLines(textures) - 1)
        /\ AllRecorded(textures, queue0) =>
               CoveredLines(textures) = 0..(NLines(textures) - 1)

\* ------------------------------------------------- claims: disjointness
\* C31: across a first run and the runs resumed from it, the batch ranges
\* of the translations recorded for one translator are pairwise disjoint.
C31_RecordedDisjoint ==
    \A t1 \in Recorded(textures) : \A t2 \in Recorded(textures) :
        t1.batch_range # t2.batch_range =>
            (t1.batch_range[1]..t1.batch_range[2])
                \cap (t2.batch_range[1]..t2.batch_range[2]) = {}

\* ------------------------------------------------- claims: stale ranges
\* a rewrite that finds no failed range leaves the failed-range file as it was
C32_KeptStep ==
    (phase = "output" /\ phase' = "exit" /\ failed' = <<>>) => diag' = diag

\* a run that starts loads the failed-range file, when there is one, as
\* specify_range
C32_LoadStep ==
    (phase # "translating" /\ phase' = "translating") =>
        specify_range' = (IF diag # NoFile THEN Some(diag[1]) ELSE None)

\* C32: when a rewrite finishes with an empty failed-range list the
\* failed-range file of an earlier run is left in place, and the next run
\* loads its stale ranges as specify_range.
C32_StaleRangesKept == [][C32_KeptStep]_vars /\ [][C32_LoadStep]_vars

\* the second rewrite found nothing failed and the file of the first is there
C32_Witness ==
    /\ runs = 2 /\ phase = "exit"
    /\ failed = <<>>
    /\ diag # NoFile
    /\ specify_range = Some(diag[1])

\* ------------------------------------------------- claims: ranges win
\* C33: with a reprocessing range list the queue is the same for every
\* curr_index, and its batches start, in order, at the starts of the
\* ranges, the first range's start first.
C33_RangesWin ==
    uqueue # None =>
        LET r == uqueue[1]
            sq == Reverse(r.queue)
            first == r.specify_range[1][1]
        IN  /\ \A c \in 0..MaxUnitLines :
                  create_batch_queue([utex EXCEPT !.curr_index = c],
                                     Some(r.specify_range), r.max_tokens) = r.queue
            /\ first < NLines(utex) => sq # <<>> /\ sq[1][1] = first
            /\ first >= NLines(utex) => sq = <<>>
            /\ Len(sq) <= Len(r.specify_range)
            /\ \A k \in 1..Len(sq) : sq[k][1] = r.specify_range[k][1]

\* a checkpoint past the ranges: the queue still starts at the first range
C33_Witness ==
    /\ uqueue # None
    /\ utex.curr_index = 2
    /\ NLines(utex) = 3
    /\ uqueue[1].specify_range = <<(<<0, 0>>), (<<1, 1>>)>>
    /\ Len(uqueue[1].queue) = 2
    /\ uqueue[1].queue[2][1] = 0

\* ---------------------------------------------- the checkpoint timer
\* lib.rs lines 121-144: start.elapsed() reaches the interval while translate
\* is in its loop
TimerElapse ==
    /\ spc = "loop"
    /\ ~elapsed
    /\ elapsed' = TRUE
    /\ UNCHANGED <<rcfg, snapshot, rq, wpc, wbatch, wresult, wclient, tpc,
                   wait_for_close, wclose, chan, close, sigpc, spc,
                   wait_for_translations, textures_mut, saved, slast, sent,
                   received>>
    /\ UNCHANGED <<pipeVars, unitVars>>

\* The tasks of one call with the timer followed: timer.finished() returns
\* what the clock says when a result is read (translator.rs line 72)
TimerNext ==
    \/ TranslatorStart
    \/ \E w \in Workers : WTop(w)
    \/ \E w \in Workers : RequestOk(w)
    \/ \E w \in Workers : RequestErr(w)
    \/ \E w \in Workers : WSend(w)
    \/ \E w \in Workers : WClose(w)
    \/ TranslatorRecv
    \/ TranslatorReturn
    \/ TranslatorSignal
    \/ CtrlC
    \/ SigSend
    \/ SupLine(elapsed)
    \/ SupClose
    \/ TimerElapse

\* Every task is scheduled: a result or a close value that stays ready is
\* read, a worker that can pop, send or close does so.  Nothing is assumed of
\* the time a request takes, nor of the clock.
SpecTimer ==
    /\ RunInit /\ [][TimerNext]_vars
    /\ WF_vars(TranslatorStart)
    /\ \A w \in Workers : WF_vars(WTop(w)) /\ WF_vars(WSend(w)) /\ WF_vars(WClose(w))
    /\ WF_vars(TranslatorRecv) /\ WF_vars(TranslatorReturn) /\ WF_vars(TranslatorSignal)
    /\ WF_vars(SigSend)
    /\ WF_vars(SupLine(elapsed))
    /\ WF_vars(SupClose)

\* C34: with a translator configured, whenever the checkpoint timer has
\* elapsed while translate is in its loop, a checkpoint is written and the
\* timer reset (or translate leaves the loop), whether or not a result arrives.
C34_TimerWrites ==
    (rcfg.chatgpt_opt /\ elapsed /\ spc = "loop")
        ~> ((slast = "save" /\ ~elapsed) \/ spc # "loop")

\* a worker leaves its send with the result accepted by the channel
C35_SendAccepted ==
    \A w \in Workers :
        (wpc[w] = "send" /\ wpc'[w] = "top") =>
            /\ Len(chan) < 1
            /\ chan' = Append(chan, wresult[w][1])
            /\ sent' = Append(sent, wresult[w][1])

\* a batch is popped only by a worker that holds neither a batch nor a result
C35_PopStep ==
    Len(rq') < Len(rq) =>
        \E w \in Workers :
            /\ wpc[w] = "top" /\ wbatch[w] = None /\ wresult[w] = None
            /\ wbatch'[w] = Some(rq[Len(rq)]) /\ rq' = SubSeq(rq, 1, Len(rq) - 1)

\* C35 as stated: at most one result is buffered in the result channel, and
\* a worker pops its next batch only after its previous result was accepted by
\* the channel (every send that lets the worker go on is an accepted one).
C35_Backpressure ==
    /\ [](Len(chan) <= 1)
    /\ [][C35_PopStep]_vars
    /\ [][C35_SendAccepted]_vars

\* C35 amended: the same while translate is in its loop and holds the
\* receiver; once translate has returned the send fails, the result is
\* dropped, and the worker goes on to pop its next batch.
C35_BackpressureWhileReceiving ==
    /\ [](Len(chan) <= 1)
    /\ [][C35_PopStep]_vars
    /\ [][SupAlive => C35_SendAccepted]_vars
    /\ [][~SupAlive => (chan' = chan /\ sent' = sent)]_vars

\* one worker's first result is still buffered while the same worker, having
\* popped its next batch, waits in send for room in the channel
C35_Witness ==
    /\ spc = "loop" /\ Len(chan) = 1 /\ Len(sent) = 1
    /\ \E w \in Workers :
        /\ wpc[w] = "send" /\ wbatch[w] # None /\ wresult[w] # None
        /\ \A v \in Workers \ {w} : wpc[v] = "unspawned"

\* C36: with no translator configured (wait_for_translations is 0 from the
\* start) translate writes its final checkpoint and returns, with no interrupt
\* and no other event needed.
C36_ReturnsAtOnce ==
    (~rcfg.chatgpt_opt /\ wait_for_translations = 0 /\ spc = "loop")
        ~> (spc = "returned" /\ slast = "save" /\ saved # NoFile)

\* the translator's completion signal is on its way or sent
Signalled == tpc \in {"signal", "done"}

\* worker w has left its loop
Terminated(w) == wpc[w] \in {"close", "done"}

\* C37: the translator sends its completion signal only after all W workers
\* have terminated (each has sent its own close value and W of them ran), and
\* a worker terminates only when it holds no batch or result and has found
\* the queue empty.
C37_SignalAfterWorkers ==
    /\ Signalled =>
        /\ \A w \in Workers : wpc[w] \in {"unspawned", "done"}
        /\ LET W == worker_count(rcfg.max_concurrent,
                                 Len(create_batch_queue(snapshot, None, rcfg.max_tokens)))
           IN  Cardinality({w \in Workers : wpc[w] = "done"}) = (IF W > 0 THEN W ELSE 0)
        /\ wclose = <<>>
    /\ \A w \in Workers :
        Terminated(w) => wbatch[w] = None /\ wresult[w] = None /\ rq = <<>>

\* two workers ran, both terminated, and the translator's signal was sent
C37_Witness ==
    /\ tpc = "done"
    /\ Cardinality({w \in Workers : wpc[w] = "done"}) >= 2
    /\ Len(sent) >= 2
    /\ slast = "close"

\* Textures b differs from a at most in curr_index and in the translated list
\* of lines[start]
FrameOfUpdate(a, b, start) ==
    /\ NLines(b) = NLines(a)
    /\ b.name = a.name
    /\ \A k \in 1..NLines(a) :
        /\ b.lines[k].seek = a.lines[k].seek
        /\ b.lines[k].size = a.lines[k].size
        /\ b.lines[k].content = a.lines[k].content
        /\ b.lines[k].skip = a.lines[k].skip
        /\ k # start + 1 => b.lines[k].translated = a.lines[k].translated

\* the supervisor's Textures change only when a result t is read, and then
\* within the frame of update(t)
C38_UpdateStep ==
    textures_mut' # textures_mut =>
        /\ chan # <<>>
        /\ received' = Append(received, Head(chan))
        /\ FrameOfUpdate(textures_mut, textures_mut', Head(chan).batch_range[1])
        /\ textures_mut'.curr_index = Head(chan).batch_range[2]

\* a step of a worker (pop, request, send, close) or of the translator task
C38_WorkerStep ==
    (wpc' # wpc \/ wbatch' # wbatch \/ wresult' # wresult \/ rq' # rq \/ sent' # sent)
        => (textures_mut' = textures_mut /\ snapshot' = snapshot)

\* C38: update(t) changes only curr_index and the translated list of
\* lines[start]; the number of lines and every line's seek, size, content and
\* skip, and the other lines' translated lists, stay as they were; the workers'
\* steps change nothing in the supervisor's Textures.
C38_UpdateFrame == [][C38_UpdateStep]_vars /\ [][C38_WorkerStep]_vars

\* C38, the rewriter: writing the output leaves the run's Textures as they were
C38_RewriterFrame == [][phase = "output" => textures' = textures]_vars

\* a two-line batch was recorded on the first of two lines: curr_index moved
\* to the batch's end and the second line is as extracted
C38_Witness ==
    /\ NLines(textures_mut) = 2
    /\ Len(received) = 1 /\ received[1].batch_range = <<0, 1>>
    /\ textures_mut.curr_index = 1
    /\ Len(textures_mut.lines[1].translated) = 1
    /\ textures_mut.lines[2] = snapshot.lines[2]
    /\ textures_mut.lines[2].translated = <<>>

\* ------------------------------------------- the map formatter's escape
\* the characters escape_json_string tells apart (Backspace stands for the
\* one character U+0008), and two ordinary ones
Quote          == "\""
Backslash      == "\\"
Backspace      == "BS"
FormFeed       == "\f"
CarriageReturn == "\r"
Tab            == "\t"
EscChars == {"a", "n", Quote, Backslash, Backspace, FormFeed, Newline, CarriageReturn, Tab}

\* mtool.rs line 36: line_width.unwrap_or(3000)
default_line_width == 3000

\* mtool.rs lines 41-56: what one character pushes onto escaped
escape_char(c) ==
    CASE c = Quote          -> <<Backslash, Quote>>
      [] c = Backslash      -> <<Backslash, Backslash>>
      [] c = Backspace      -> <<Backslash, "b">>
      [] c = FormFeed       -> <<Backslash, "f">>
      [] c = Newline        -> <<Backslash, "n">>
      [] c = CarriageReturn -> <<Backslash, "r">>
      [] c = Tab            -> <<Backslash, "t">>
      [] OTHER              -> <<c>>

RECURSIVE escapeFrom_after_width(_, _, _, _)
escapeFrom_after_width(s, k, line_len, line_width) ==
    IF k > Len(s) THEN <<>>
    ELSE LET c   == s[k]
             len == IF c \in {Newline, CarriageReturn} THEN 0 ELSE line_len + 1
             brk == len > line_width
         IN  escape_char(c) \o (IF brk THEN <<Backslash, "n">> ELSE <<>>)
                 \o escapeFrom_after_width(s, k + 1, IF brk THEN 0 ELSE len, line_width)

\* mtool.rs lines 39-61: the loop over s.chars() from character k (from 1)
\* with line_len characters counted so far
RECURSIVE escapeFrom(_, _, _, _)
escapeFrom(s, k, line_len, line_width) ==
    IF k > Len(s) THEN <<>>
    ELSE LET c   == s[k]
             len == IF c \in {Newline, CarriageReturn} THEN 0 ELSE line_len + 1
             brk == len >= line_width
         IN  escape_char(c) \o (IF brk THEN <<Backslash, "n">> ELSE <<>>)
                 \o escapeFrom(s, k + 1, IF brk THEN 0 ELSE len, line_width)

\* mtool.rs lines 35-63 (replace.rs lines 44-72 is the same function)
escape_json_string(s, line_width) ==
    escapeFrom(s, 1, 0, IF line_width = None THEN default_line_width ELSE line_width[1])

\* the strings and widths of a call: every short string over EscChars with
\* every small width or none, and the unit test's hello\world with width 5
MaxEscLen   == 4
MaxEscWidth == 2
EscStrings == UNION { [1..n -> EscChars] : n \in 0..MaxEscLen }
EscWidths  == {None} \cup { Some(w) : w \in 0..MaxEscWidth }
HelloWorld == <<"h", "e", "l", "l", "o", Backslash, "w", "o", "r", "l", "d">>
EscCalls ==
    [s : EscStrings, line_width : EscWidths, escaped : {None}]
        \cup {[s |-> HelloWorld, line_width |-> Some(5), escaped |-> None]}

\* mtool.rs lines 25-32: format_line escapes the translated content
UEscape ==
    /\ uesc # None
    /\ uesc[1].escaped = None
    /\ uesc' = Some([uesc[1] EXCEPT !.escaped =
                        Some(escape_json_string(uesc[1].s, uesc[1].line_width))])
    /\ UNCHANGED <<uraw, utex, upool, client_count, clients, ubatch, ubytes, usaved,
                   uloaded, uqueue>>
    /\ UNCHANGED <<pipeVars, runVars>>

EscInit ==
    /\ file = <<>> /\ PipeIdle /\ RunIdle
    /\ uraw = <<>> /\ utex = parse(<<>>) /\ upool = <<>>
    /\ client_count = 0 /\ clients = <<>> /\ ubatch = None /\ ubytes = <<>>
    /\ usaved = NoFile /\ uloaded = None /\ uqueue = None
    /\ \E call \in EscCalls : uesc = Some(call)

EscNext == UEscape

SpecEscape == EscInit /\ [][EscNext]_vars

\* ------------------------------------------------- claims: escaping
\* the letter written after the backslash for each escaped character
EscapeLetter ==
    (Quote :> Quote) @@ (Backslash :> Backslash) @@ (Backspace :> "b")
        @@ (FormFeed :> "f") @@ (Newline :> "n") @@ (CarriageReturn :> "r")
        @@ (Tab :> "t")

LineEnds == {Newline, CarriageReturn}

\* the last newline or carriage return of s before character i, or 0
LastLineEnd(s, i) ==
    LET L == { j \in 1..(i - 1) : s[j] \in LineEnds }
    IN  IF L = {} THEN 0 ELSE CHOOSE j \in L : \A k \in L : k <= j

\* character i of s is the w-th, 2w-th, ... counted since the last newline or
\* carriage return (w > 0)
BreakAfter(s, i, w) == s[i] \notin LineEnds /\ (i - LastLineEnd(s, i)) % w = 0

\* the escaped text the statement describes for width w > 0
RECURSIVE Wrapped(_, _, _)
Wrapped(s, i, w) ==
    IF i > Len(s) THEN <<>>
    ELSE (IF s[i] \in DOMAIN EscapeLetter THEN <<Backslash, EscapeLetter[s[i]]>> ELSE <<s[i]>>)
            \o (IF BreakAfter(s, i, w) THEN <<Backslash, "n">> ELSE <<>>)
            \o Wrapped(s, i + 1, w)

\* the longest run of input characters between two breaks (\n or \r) of the
\* escaped text out, read from position k with run characters since the last
\* break
RECURSIVE LongestRun(_, _, _)
LongestRun(out, k, run) ==
    IF k > Len(out) THEN run
    ELSE IF out[k] = Backslash /\ k < Len(out)
         THEN IF out[k + 1] \in {"n", "r"}
              THEN Max(run, LongestRun(out, k + 2, 0))
              ELSE LongestRun(out, k + 2, run + 1)
         ELSE LongestRun(out, k + 1, run + 1)

EscWidth == IF uesc[1].line_width = None THEN default_line_width ELSE uesc[1].line_width[1]
Escaped  == uesc # None /\ uesc[1].escaped # None

\* C39 as stated: for every string and width, no more than line_width input
\* characters stand between two breaks of the escaped text, and for a positive
\* width the text is each character's escape with a literal \n after every
\* line_width-th character counted since the last newline, carriage return or
\* inserted break.
C39_Wrap ==
    Escaped =>
        /\ LongestRun(uesc[1].escaped[1], 1, 0) <= EscWidth
        /\ EscWidth > 0 => uesc[1].escaped[1] = Wrapped(uesc[1].s, 1, EscWidth)

\* each character's escape followed by a break
RECURSIVE BrokenEach(_, _)
BrokenEach(s, i) ==
    IF i > Len(s) THEN <<>>
    ELSE (IF s[i] \in DOMAIN EscapeLetter THEN <<Backslash, EscapeLetter[s[i]]>> ELSE <<s[i]>>)
            \o <<Backslash, "n">> \o BrokenEach(s, i + 1)

\* C39 amended: the statement for line_width >= 1 (3000 when none is given);
\* with line_width 0 a literal \n follows every character, newline and
\* carriage return included.
C39_WrapPositive ==
    Escaped =>
        /\ EscWidth > 0 =>
            /\ LongestRun(uesc[1].escaped[1], 1, 0) <= EscWidth
            /\ uesc[1].escaped[1] = Wrapped(uesc[1].s, 1, EscWidth)
        /\ EscWidth = 0 => uesc[1].escaped[1] = BrokenEach(uesc[1].s, 1)

\* the unit test: hello\world with width 5 gives hello\n\\worl\nd
C39_Witness ==
    /\ Escaped
    /\ uesc[1].s = HelloWorld /\ uesc[1].line_width = Some(5)
    /\ uesc[1].escaped[1] = <<"h", "e", "l", "l", "o", Backslash, "n",
                              Backslash, Backslash, "w", "o", "r", "l", Backslash, "n", "d">>

=============================================================================
